---- MODULE Spec2Model ----
(***************************************************************************)
(* Model of the transport layer of minecraft-bedrock-websocket-tutorials:  *)
(*   - MinecraftWebSocketServer (src/unnamed/part_002): command batches,   *)
(*     request/response correlation, batch timeout, sendData packetizer,   *)
(*     data polling (the polling loops and #handleDataPollingResponse);    *)
(*   - WebSocketBridge (src/scripts/dist/websocket/WebSocketBridge.js):    *)
(*     START/DATA/END reassembly on the receiving side.                    *)
(* Strings are sequences of character codes (charCodeAt values).           *)
(***************************************************************************)
EXTENDS Integers, Sequences, FiniteSets, TLC

VARIABLES
    wsServer,            \* #wsServer: TRUE while the server object exists
    clientConn,          \* #clientConn: NoConn (null) or a connection id
    connClosed,          \* connections whose `closed` flag is set
    connCount,           \* number of connections accepted so far
    commandBatches,      \* #commandBatches: batchId -> index of the batch record in calls
    requestIdToBatchId,  \* #requestIdToBatchId: requestId -> batchId
    calls,               \* one record per runCommands invocation (batch closure + promise)
    sent,                \* log of clientConn.sendText payloads
    answered,            \* indices of sent the game client has answered
    redelivered,         \* indices of sent whose response has arrived a second time
    input,               \* the arguments the next sendData call is made with
    transfers,           \* one record per sendData invocation
    executed,            \* indices of sent whose command the game has run
    incomingTransfers,   \* WebSocketBridge.incomingTransfers: transferId -> record
    listeners,           \* WebSocketBridge.listeners: name -> callback
    bridgeTimers,        \* armed system.runTimeout handles: handle -> the callback's
                         \* captured transferId and name, and the tick it is due at
    timerCount,          \* handles system.runTimeout has returned so far
    dispatched,          \* log of listener invocations
    currentTick,         \* system.currentTick
    diagnostic,          \* what the bridge last wrote with console.warn/console.error
    enableDataPolling,   \* the constructor option enableDataPolling
    dataCallback,        \* #dataCallback: NoCallback (null) or a callback
    dataPollingTemp,     \* #dataPollingTemp: the names it holds
    pollTimers,          \* armed setTimeout callbacks deleting a name from
                         \* #dataPollingTemp: the name and the time each is due at
    loops,               \* one record per #dataPollingLoop() invocation
    delivered,           \* log of #dataCallback invocations
    scoreboard,          \* the game: what is tracked for yb:data
    now                  \* the server's clock, in ms

connVars == <<wsServer, clientConn, connClosed, connCount>>
batchVars == <<commandBatches, requestIdToBatchId, calls, sent>>
gameVars == <<answered, redelivered, executed>>
sendVars == <<input, transfers>>
bridgeVars == <<incomingTransfers, listeners, bridgeTimers, timerCount, dispatched,
                currentTick, diagnostic>>

pollVars == <<enableDataPolling, dataCallback, dataPollingTemp, pollTimers, loops,
              delivered, scoreboard, now>>

vars == <<connVars, batchVars, gameVars, sendVars, bridgeVars, pollVars>>

-----------------------------------------------------------------------------
(* Bounds of the model *)

\* runCommand/runCommands/sendData calls made by users of the server
MaxCalls == 1
\* commands per public runCommands call: 0..MaxCmds
MaxCmds == 3
\* client connections accepted
MaxConns == 1
\* times #generateId returns an id it has returned before, per kind of id
MaxCollisions == 1
\* commandResponse messages the game client sends a second time
MaxDuplicates == 1
\* START messages the bridge accepts
MaxStarts == 1
\* further START messages it accepts when fed two transfer ids and two channels
MaxRestarts == 1
\* connections accepted after the first one while the server polls
MaxReconnects == 1
\* poll queries issued by loops that have slept
MaxPolls == 1

-----------------------------------------------------------------------------
(* Program constants *)

WSS_MAXIMUM_BYTES == 661
TIMEOUT_TICKS == 600

\* Buffer.byteLength of the commandRequest envelope with an empty commandLine
\* and a 3-character requestId
EnvelopeBytes == 116

Quote == 34
Backslash == 92
Colon == 58
Space == 32

NoConn == 0
NoId == 0
\* nothing logged by the bridge yet
NoDiagnostic == [kind |-> "none"]
NoInput == [name |-> <<>>, data |-> [type |-> "undefined"]]

-----------------------------------------------------------------------------
(* Strings and byte sizes *)

\* bytes one character occupies inside JSON.stringify(payload), UTF-8 encoded
CharBytes(c) ==
    IF c = Quote \/ c = Backslash THEN 2
    ELSE IF c \in {8, 9, 10, 12, 13} THEN 2
    ELSE IF c < 32 THEN 6
    ELSE IF c < 128 THEN 1
    ELSE IF c < 2048 THEN 2
    ELSE 3

RECURSIVE EscapedBytes(_, _, _)
\* bytes of characters lo..hi of s once JSON-escaped
EscapedBytes(s, lo, hi) ==
    IF lo > hi THEN 0
    ELSE IF lo = hi THEN CharBytes(s[lo])
    ELSE LET mid == (lo + hi) \div 2
         IN EscapedBytes(s, lo, mid) + EscapedBytes(s, mid + 1, hi)

\* Buffer.byteLength(JSON.stringify({header: {...}, body: {commandLine: command, ...}}))
CommandPayloadBytes(command) == EnvelopeBytes + EscapedBytes(command, 1, Len(command))

\* "say <i>"
SayCommand(i) == <<115, 97, 121, Space, 48 + i>>
\* "say " followed by 181 CJK characters (3 bytes each): 663 bytes once wrapped
LongCommand == <<115, 97, 121, Space>> \o [i \in 1..181 |-> 20013]
\* tellraw @a {"rawtext":[{"text":...}]} as issued by sendMessage
TellrawCommand == <<116, 101, 108, 108, 114, 97, 119>>
\* "success"
Success == <<115, 117, 99, 99, 101, 115, 115>>

\* the command lists a caller passes to runCommands: <<say 1, ..., say n>>
SayCommands(n) == [i \in 1..n |-> SayCommand(i)]

-----------------------------------------------------------------------------
(* Text: numbers, JSON *)

IsDigit(c) == c >= 48 /\ c <= 57

RECURSIVE Digits(_)
\* String(n) for a natural number n
Digits(n) == IF n < 10 THEN <<48 + n>> ELSE Digits(n \div 10) \o <<48 + (n % 10)>>

RECURSIVE DigitsValue(_, _, _)
\* the number written by the digits lo..hi of s
DigitsValue(s, lo, hi) ==
    IF hi < lo THEN 0 ELSE DigitsValue(s, lo, hi - 1) * 10 + (s[hi] - 48)

RECURSIVE DigitRunEnd(_, _)
\* the first position from i on that holds no digit
DigitRunEnd(s, i) == IF i <= Len(s) /\ IsDigit(s[i]) THEN DigitRunEnd(s, i + 1) ELSE i

RECURSIVE SkipSpaces(_, _)
SkipSpaces(s, i) == IF i <= Len(s) /\ s[i] = Space THEN SkipSpaces(s, i + 1) ELSE i

NaN == [nan |-> TRUE, value |-> 0]

\* a conversion that yields 0 where parseInt yields NaN
ParseIntOrZero(s) ==
    LET b == SkipSpaces(s, 1)
        signed == b <= Len(s) /\ s[b] \in {43, 45}
        from == IF signed THEN b + 1 ELSE b
        to == DigitRunEnd(s, from)
        magnitude == DigitsValue(s, from, to - 1)
    IN [nan |-> FALSE,
        value |-> IF to = from THEN 0
                  ELSE IF signed /\ s[b] = 45 THEN 0 - magnitude ELSE magnitude]

\* parseInt(s, 10): leading blanks, an optional sign, then the longest run of
\* digits; NaN when there is none
ParseInt(s) ==
    LET b == SkipSpaces(s, 1)
        signed == b <= Len(s) /\ s[b] \in {43, 45}
        from == IF signed THEN b + 1 ELSE b
        to == DigitRunEnd(s, from)
        magnitude == DigitsValue(s, from, to - 1)
    IN IF to = from THEN NaN
       ELSE [nan |-> FALSE,
             value |-> IF signed /\ s[b] = 45 THEN 0 - magnitude ELSE magnitude]

RECURSIVE Flatten(_, _, _)
\* the concatenation of the strings ss[lo], ..., ss[hi]
Flatten(ss, lo, hi) ==
    IF lo > hi THEN <<>>
    ELSE IF lo = hi THEN ss[lo]
    ELSE LET mid == (lo + hi) \div 2
         IN Flatten(ss, lo, mid) \o Flatten(ss, mid + 1, hi)

HexDigit(d) == IF d < 10 THEN 48 + d ELSE 87 + d
HexValue(c) == IF IsDigit(c) THEN c - 48
               ELSE IF c >= 97 /\ c <= 102 THEN c - 87
               ELSE IF c >= 65 /\ c <= 70 THEN c - 55
               ELSE 0 - 1

\* `\\u${('0000' + c.charCodeAt(0).toString(16)).slice(-4)}`
UnicodeEscape(c) ==
    <<Backslash, 117, HexDigit((c \div 4096) % 16), HexDigit((c \div 256) % 16),
      HexDigit((c \div 16) % 16), HexDigit(c % 16)>>

\* one character of a string as JSON.stringify writes it
JsonStringChar(c) ==
    IF c = Quote \/ c = Backslash THEN <<Backslash, c>>
    ELSE IF c = 8 THEN <<Backslash, 98>>
    ELSE IF c = 9 THEN <<Backslash, 116>>
    ELSE IF c = 10 THEN <<Backslash, 110>>
    ELSE IF c = 12 THEN <<Backslash, 102>>
    ELSE IF c = 13 THEN <<Backslash, 114>>
    ELSE IF c < 32 THEN UnicodeEscape(c)
    ELSE <<c>>

\* JSON.stringify(data) for a natural number, a string or an array of naturals
JsonStringify(data) ==
    IF data.type = "number" THEN Digits(data.value)
    ELSE IF data.type = "string"
    THEN <<Quote>>
         \o Flatten([i \in 1..Len(data.chars) |-> JsonStringChar(data.chars[i])],
                    1, Len(data.chars))
         \o <<Quote>>
    ELSE <<91>>
         \o Flatten([i \in 1..Len(data.items) |->
                        (IF i > 1 THEN <<44>> ELSE <<>>) \o Digits(data.items[i])],
                    1, Len(data.items))
         \o <<93>>

\* jsonString.replace(/[^\x00-\x7F]/g, (c) => `\\u....`)
EscapeNonAscii(jsonString) ==
    Flatten([i \in 1..Len(jsonString) |->
                IF jsonString[i] > 127 THEN UnicodeEscape(jsonString[i])
                ELSE <<jsonString[i]>>],
            1, Len(jsonString))

\* one step of JSON.parse inside a string literal or an array of naturals
JsonParseStep(s, st) ==
    LET i == st.pos
        fail == [st EXCEPT !.mode = "fail"]
    IN IF i > Len(s) THEN fail
       ELSE IF st.mode = "string"
       THEN IF s[i] = Quote
            THEN IF i = Len(s) THEN [st EXCEPT !.mode = "done"] ELSE fail
            ELSE IF s[i] = Backslash
            THEN IF i + 1 > Len(s) THEN fail
                 ELSE LET e == s[i + 1] IN
                      IF e \in {Quote, Backslash, 47}
                      THEN [st EXCEPT !.out = Append(@, e), !.pos = i + 2]
                      ELSE IF e = 98 THEN [st EXCEPT !.out = Append(@, 8), !.pos = i + 2]
                      ELSE IF e = 116 THEN [st EXCEPT !.out = Append(@, 9), !.pos = i + 2]
                      ELSE IF e = 110 THEN [st EXCEPT !.out = Append(@, 10), !.pos = i + 2]
                      ELSE IF e = 102 THEN [st EXCEPT !.out = Append(@, 12), !.pos = i + 2]
                      ELSE IF e = 114 THEN [st EXCEPT !.out = Append(@, 13), !.pos = i + 2]
                      ELSE IF e = 117 /\ i + 5 <= Len(s)
                              /\ \A j \in (i + 2)..(i + 5) : HexValue(s[j]) >= 0
                      THEN [st EXCEPT !.out = Append(@, HexValue(s[i + 2]) * 4096
                                                        + HexValue(s[i + 3]) * 256
                                                        + HexValue(s[i + 4]) * 16
                                                        + HexValue(s[i + 5])),
                                      !.pos = i + 6]
                      ELSE fail
            ELSE IF s[i] < 32 THEN fail
            ELSE [st EXCEPT !.out = Append(@, s[i]), !.pos = i + 1]
       ELSE IF IsDigit(s[i])
            THEN [st EXCEPT !.num = (IF @ < 0 THEN 0 ELSE @ * 10) + (s[i] - 48),
                            !.pos = i + 1]
            ELSE IF s[i] = 44
            THEN IF st.num < 0 THEN fail
                 ELSE [st EXCEPT !.out = Append(@, st.num), !.num = 0 - 1, !.pos = i + 1]
            ELSE IF s[i] = 93 /\ i = Len(s)
            THEN IF st.num >= 0
                 THEN [st EXCEPT !.out = Append(@, st.num), !.mode = "done"]
                 ELSE IF st.out = <<>> THEN [st EXCEPT !.mode = "done"] ELSE fail
            ELSE fail

RECURSIVE JsonParseRun(_, _, _)
JsonParseRun(s, st, n) ==
    IF n = 0 \/ st.mode \in {"fail", "done"} THEN st
    ELSE JsonParseRun(s, JsonParseStep(s, st), n - 1)

RECURSIVE JsonParseAll(_, _)
JsonParseAll(s, st) ==
    IF st.mode \in {"fail", "done"} THEN st
    ELSE JsonParseAll(s, JsonParseRun(s, st, 32))

\* JSON.parse(s): [ok |-> FALSE] when it throws
JsonParse(s) ==
    IF s = <<>> THEN [ok |-> FALSE]
    ELSE IF (\A i \in 1..Len(s) : IsDigit(s[i])) /\ (Len(s) = 1 \/ s[1] # 48)
    THEN [ok |-> TRUE, value |-> [type |-> "number", value |-> DigitsValue(s, 1, Len(s))]]
    ELSE IF s[1] = Quote \/ s[1] = 91
    THEN LET st == JsonParseAll(s, [mode |-> IF s[1] = Quote THEN "string" ELSE "array",
                                    pos |-> 2, out |-> <<>>, num |-> 0 - 1])
         IN IF st.mode # "done" THEN [ok |-> FALSE]
            ELSE IF s[1] = Quote
            THEN [ok |-> TRUE, value |-> [type |-> "string", chars |-> st.out]]
            ELSE [ok |-> TRUE, value |-> [type |-> "array", items |-> st.out]]
    ELSE [ok |-> FALSE]

-----------------------------------------------------------------------------
(* sendData: the packetizer *)

\* "scriptevent yb:"
ScriptEventPrefix == <<115, 99, 114, 105, 112, 116, 101, 118, 101, 110, 116, Space,
                       121, 98, Colon>>
\* " START:", " DATA:", " END:"
StartTag == <<Space, 83, 84, 65, 82, 84, Colon>>
DataTag == <<Space, 68, 65, 84, 65, Colon>>
EndTag == <<Space, 69, 78, 68, Colon>>

\* `scriptevent yb:${name}`
CommandBase(name) == ScriptEventPrefix \o name

\* `${commandBase} DATA:${chunkIndex}:${transferId}:`
CommandPrefix(name, chunkIndex, transferId) ==
    CommandBase(name) \o DataTag \o Digits(chunkIndex) \o <<Colon>> \o transferId
    \o <<Colon>>

\* the 4-character id #generateId(4) returns, written from its number
TransferIdText(t) == <<116, 114, 48 + (t \div 10), 48 + (t % 10)>>

\* a test every name passes
NameOkAlways(name) == TRUE

\* /^[a-zA-Z0-9_-]+$/.test(name)
NameOk(name) ==
    /\ name # <<>>
    /\ \A i \in 1..Len(name) :
          \/ name[i] >= 97 /\ name[i] <= 122
          \/ name[i] >= 65 /\ name[i] <= 90
          \/ IsDigit(name[i])
          \/ name[i] \in {95, 45}

MaxNameLength == 64

RECURSIVE BinarySearchChunkOnly(_, _, _, _, _)
\* the binary search measuring the candidate chunk without its command prefix
BinarySearchChunkOnly(remainingData, commandPrefix, low, high, bestFitIndex) ==
    IF low > high THEN bestFitIndex
    ELSE LET mid == (low + high) \div 2 IN
         IF mid = 0 THEN bestFitIndex
         ELSE IF CommandPayloadBytes(SubSeq(remainingData, 1, mid)) <= WSS_MAXIMUM_BYTES
         THEN BinarySearchChunkOnly(remainingData, commandPrefix, mid + 1, high, mid)
         ELSE BinarySearchChunkOnly(remainingData, commandPrefix, low, mid - 1,
                                    bestFitIndex)

RECURSIVE BinarySearch(_, _, _, _, _)
\* the while (low <= high) loop of sendData
BinarySearch(remainingData, commandPrefix, low, high, bestFitIndex) ==
    IF low > high THEN bestFitIndex
    ELSE LET mid == (low + high) \div 2 IN
         IF mid = 0 THEN bestFitIndex
         ELSE IF CommandPayloadBytes(commandPrefix \o SubSeq(remainingData, 1, mid))
                    <= WSS_MAXIMUM_BYTES
         THEN BinarySearch(remainingData, commandPrefix, mid + 1, high, mid)
         ELSE BinarySearch(remainingData, commandPrefix, low, mid - 1, bestFitIndex)

\* bestFitIndex after the binary search over remainingData
BestFitIndex(remainingData, commandPrefix) ==
    BinarySearch(remainingData, commandPrefix, 0, Len(remainingData), 0)

RECURSIVE PacketizeEmptyChunk(_, _, _, _, _)
\* a loop that ends with an empty chunk where no character fits
PacketizeEmptyChunk(remainingData, chunkIndex, chunks, name, transferId) ==
    IF Len(remainingData) = 0 THEN [chunks |-> chunks, failed |-> FALSE]
    ELSE LET bestFitIndex == BestFitIndex(remainingData,
                                          CommandPrefix(name, chunkIndex, transferId))
         IN IF bestFitIndex = 0 THEN [chunks |-> Append(chunks, <<>>), failed |-> FALSE]
            ELSE PacketizeEmptyChunk(
                     SubSeq(remainingData, bestFitIndex + 1, Len(remainingData)),
                     chunkIndex + 1,
                     Append(chunks, SubSeq(remainingData, 1, bestFitIndex)),
                     name, transferId)

RECURSIVE Packetize(_, _, _, _, _)
\* the while (remainingData.length > 0) loop of sendData; failed is the throw
\* of the overhead-too-large error
Packetize(remainingData, chunkIndex, chunks, name, transferId) ==
    IF Len(remainingData) = 0 THEN [chunks |-> chunks, failed |-> FALSE]
    ELSE LET bestFitIndex == BestFitIndex(remainingData,
                                          CommandPrefix(name, chunkIndex, transferId))
         IN IF bestFitIndex = 0 THEN [chunks |-> chunks, failed |-> TRUE]
            ELSE Packetize(SubSeq(remainingData, bestFitIndex + 1, Len(remainingData)),
                           chunkIndex + 1,
                           Append(chunks, SubSeq(remainingData, 1, bestFitIndex)),
                           name, transferId)

\* the START, DATA and END commands of one transfer
TransferCommands(name, transferId, chunks) ==
    <<CommandBase(name) \o StartTag \o Digits(Len(chunks)) \o <<Colon>> \o transferId>>
    \o [i \in 1..Len(chunks) |->
           CommandBase(name) \o DataTag \o Digits(i - 1) \o <<Colon>> \o transferId
           \o <<Colon>> \o chunks[i]]
    \o <<CommandBase(name) \o EndTag \o transferId>>

-----------------------------------------------------------------------------
(* Map helpers (JavaScript Map) *)

MapSet(m, k, v) == [x \in DOMAIN m \cup {k} |-> IF x = k THEN v ELSE m[x]]
MapDelete(m, k) == [x \in DOMAIN m \ {k} |-> m[x]]
MapHas(m, k) == k \in DOMAIN m
EmptyMap == [x \in {} |-> 0]

RECURSIVE MapDeleteAll(_, _, _)
\* requestIds.forEach((reqId) => map.delete(reqId))
MapDeleteAll(m, ks, i) ==
    IF i > Len(ks) THEN m ELSE MapDeleteAll(MapDelete(m, ks[i]), ks, i + 1)

-----------------------------------------------------------------------------
(* Server state as one value, so that handlers compose *)

Server == [commandBatches |-> commandBatches,
           requestIdToBatchId |-> requestIdToBatchId,
           calls |-> calls,
           sent |-> sent]

\* the guard `!this.#clientConn || this.#clientConn.closed`, negated
ConnUsable(conn) == conn # NoConn /\ conn \notin connClosed

\* the batch record and promise created by an accepted runCommands call; api
\* names the method that made the call
NewBatch(api, batchId, requestIds, commands) ==
    [api |-> api, batchId |-> batchId, requestIds |-> requestIds, commands |-> commands,
     commandCount |-> Len(commands), results |-> <<>>, timeout |-> TRUE,
     resolved |-> 0, rejected |-> 0]

\* the promise of a runCommands call rejected at its connection check
RefusedCall(api, commands) ==
    [api |-> api, batchId |-> NoId, requestIds |-> <<>>, commands |-> commands,
     commandCount |-> Len(commands), results |-> <<>>, timeout |-> FALSE,
     resolved |-> 0, rejected |-> 1]

\* the connection check forgetting the closed flag
RunCommandsGuardNoClosed(conn) == conn # NoConn

\* the connection check at the head of runCommands
RunCommandsGuard(conn) == ConnUsable(conn)

RECURSIVE RunCommandsOn(_, _, _, _, _, _, _)
RECURSIVE SendEach(_, _, _, _, _, _, _)

\* sendMessage for a message that fits one tellraw: one runCommand call
\* ids = <<batchId, requestId>> drawn by #generateId inside that call
SendMessage(S, conn, ids) ==
    IF ~ConnUsable(conn) THEN S
    ELSE RunCommandsOn(S, "sendMessage", conn, <<TellrawCommand>>, ids[1], <<ids[2]>>,
                       EmptyMap)

\* #internalRunCommand(command, requestId); nest[i] holds the ids drawn by the
\* sendMessage it triggers when command i is too long.  A transmitted payload
\* is recorded with the call and the position it was issued for.
InternalRunCommand(S, conn, command, requestId, nest, i) ==
    IF ~ConnUsable(conn) THEN S
    ELSE IF CommandPayloadBytes(command) > WSS_MAXIMUM_BYTES
         THEN SendMessage(S, conn, nest[i])
    ELSE [S EXCEPT !.sent = Append(@, [conn |-> conn, requestId |-> requestId,
                                       commandLine |-> command,
                                       call |-> S.commandBatches[
                                                    S.requestIdToBatchId[requestId]],
                                       index |-> i])]

\* commands.forEach((command, index) => {...}) of runCommands, from index i on
SendEach(S, conn, commands, requestIds, batchId, nest, i) ==
    IF i > Len(commands) THEN S
    ELSE LET S1 == [S EXCEPT !.requestIdToBatchId = MapSet(@, requestIds[i], batchId)]
             S2 == InternalRunCommand(S1, conn, commands[i], requestIds[i], nest, i)
         IN SendEach(S2, conn, commands, requestIds, batchId, nest, i + 1)

\* runCommands(commands) on connection conn, with the ids #generateId returned
RunCommandsOn(S, api, conn, commands, batchId, requestIds, nest) ==
    IF ~RunCommandsGuard(conn)
    THEN [S EXCEPT !.calls = Append(@, RefusedCall(api, commands))]
    ELSE LET k == Len(S.calls) + 1
             S1 == [S EXCEPT !.calls = Append(@, NewBatch(api, batchId, requestIds,
                                                          commands)),
                             !.commandBatches = MapSet(@, batchId, k)]
         IN SendEach(S1, conn, commands, requestIds, batchId, nest, 1)

\* indices of the commands of a batch that #internalRunCommand refuses as too long
TooLong(commands) ==
    {i \in 1..Len(commands) : CommandPayloadBytes(commands[i]) > WSS_MAXIMUM_BYTES}

\* the ids the nested sendMessage calls draw: the j-th too long command gets the
\* batch id b[1 + j] and the request id r[Len(commands) + j]
NestIds(commands, b, r) ==
    [i \in TooLong(commands) |->
        LET j == Cardinality({h \in TooLong(commands) : h <= i})
        IN <<b[1 + j], r[Len(commands) + j]>>]

\* the greatest element of a finite set of naturals (0 when empty)
MaxOf(set) == CHOOSE m \in set \cup {0} : \A x \in set \cup {0} : x <= m

RECURSIVE GeneratedIds(_, _, _)
\* #generateId called n times in a row.  Every call returns an arbitrary id: one
\* returned before (a collision) or a new one.  Ids are only ever compared for
\* equality, so the ids not returned before are interchangeable and the next
\* unused number stands for all of them; f is the greatest number used so far
\* and c the number of collisions still explored.
GeneratedIds(n, f, c) ==
    IF n = 0 THEN {<<>>}
    ELSE UNION {{<<x>> \o t : t \in GeneratedIds(n - 1, IF x > f THEN x ELSE f,
                                                  IF x > f THEN c ELSE c - 1)} :
                x \in (IF c > 0 THEN 1 ELSE f + 1)..(f + 1)}

\* batch ids and request ids #generateId has returned so far
UsedBatchIds == {calls[k].batchId : k \in DOMAIN calls} \ {NoId}
UsedRequestIds == UNION {{calls[k].requestIds[i] : i \in DOMAIN calls[k].requestIds} :
                         k \in DOMAIN calls}

RECURSIVE IdsDrawn(_)
\* how many request ids the first k calls drew
IdsDrawn(k) == IF k = 0 THEN 0 ELSE Len(calls[k].requestIds) + IdsDrawn(k - 1)

\* collisions still explored among batch ids and among request ids
BatchIdCollisionsLeft ==
    MaxCollisions - (Cardinality({k \in DOMAIN calls : calls[k].batchId # NoId})
                     - Cardinality(UsedBatchIds))
RequestIdCollisionsLeft ==
    MaxCollisions - (IdsDrawn(Len(calls)) - Cardinality(UsedRequestIds))

\* n batch ids, n request ids as #generateId may return them in the current state
NewBatchIds(n) == GeneratedIds(n, MaxOf(UsedBatchIds), BatchIdCollisionsLeft)
NewRequestIds(n) == GeneratedIds(n, MaxOf(UsedRequestIds), RequestIdCollisionsLeft)

\* calls made by a user of the server (not by sendMessage)
UserCalls == Cardinality({k \in DOMAIN calls : calls[k].api # "sendMessage"})

\* the effect of a handler on the server's maps
Install(S) ==
    /\ commandBatches' = S.commandBatches
    /\ requestIdToBatchId' = S.requestIdToBatchId
    /\ calls' = S.calls
    /\ sent' = S.sent

-----------------------------------------------------------------------------
(* Data polling: the poll response and #handleDataPollingResponse *)

NoCallback == 0
\* the callbacks registered with onData(callback): 1 returns, 2 throws
DataCallbacks == 1..2
ThrowingDataCallbacks == {2}

NewLine == 10
FullWidthColon == 65306
OpenParen == 40
CloseParen == 41
Hyphen == 45

\* 'scoreboard players list yb:data'
PollQuery ==
    <<115, 99, 111, 114, 101, 98, 111, 97, 114, 100, 32, 112, 108, 97, 121, 101, 114,
      115, 32, 108, 105, 115, 116, 32, 121, 98, 58, 100, 97, 116, 97>>

\* `scoreboard objectives remove "${name}"`
RemoveCommand(name) ==
    <<115, 99, 111, 114, 101, 98, 111, 97, 114, 100, 32, 111, 98, 106, 101, 99, 116,
      105, 118, 101, 115, 32, 114, 101, 109, 111, 118, 101, 32, Quote>>
        \o name \o <<Quote>>

\* the two halves of the first line of a listing, around the count
ListingHead ==
    <<167, 97, 27491, 28858, 32, 121, 98, 58, 100, 97, 116, 97, 32, 39023, 31034, 32>>
ListingTail == <<32, 20491, 36861, 36452, 30340, 29289, 20214, FullWidthColon>>

\* '玩家 yb:data 沒有記錄分數'
NoScores ==
    <<29609, 23478, 32, 121, 98, 58, 100, 97, 116, 97, 32, 27794, 26377, 35352, 37636,
      20998, 25976>>

\* one line of a listing: "- value：score (name)"
ListingLine(entry) ==
    <<NewLine, Hyphen, Space>> \o entry.value \o <<FullWidthColon>> \o Digits(entry.score)
        \o <<Space, OpenParen>> \o entry.name \o <<CloseParen>>

RECURSIVE ListingLines(_)
ListingLines(board) ==
    IF board = {} THEN <<>>
    ELSE LET entry == CHOOSE e \in board : \A f \in board : e.score <= f.score
         IN ListingLine(entry) \o ListingLines(board \ {entry})

\* what the game answers to the poll query while it tracks board for yb:data
Listing(board) ==
    IF board = {} THEN NoScores
    ELSE ListingHead \o Digits(Cardinality(board)) \o ListingTail \o ListingLines(board)

\* response_regexp.test(message)
ResponseRegexpTest(message) ==
    LET from == Len(ListingHead) + 1
        to == DigitRunEnd(message, from)
    IN /\ Len(message) >= Len(ListingHead)
       /\ SubSeq(message, 1, Len(ListingHead)) = ListingHead
       /\ to > from
       /\ Len(message) >= to + Len(ListingTail) - 1
       /\ SubSeq(message, to, to + Len(ListingTail) - 1) = ListingTail

RECURSIVE ClosingParen(_, _)
\* "(.*?)\)" from position i: where the first ")" stands, 0 when a line break
\* or the end of the message comes first
ClosingParen(s, i) ==
    IF i > Len(s) \/ s[i] = NewLine THEN 0
    ELSE IF s[i] = CloseParen THEN i
    ELSE ClosingParen(s, i + 1)

\* "：(\d+) \((.*?)\)" at position e: where the match ends, 0 when it fails
TailEnd(s, e) ==
    IF e > Len(s) \/ s[e] # FullWidthColon THEN 0
    ELSE LET to == DigitRunEnd(s, e + 1)
         IN IF to = e + 1 \/ to + 1 > Len(s) \/ s[to] # Space \/ s[to + 1] # OpenParen
            THEN 0
            ELSE ClosingParen(s, to + 2)

RECURSIVE ValueEnd(_, _)
\* "(.*?)" followed by the rest of the pattern: the first position from e on
\* at which the rest matches, 0 when there is none on this line
ValueEnd(s, e) ==
    IF e > Len(s) THEN 0
    ELSE IF TailEnd(s, e) # 0 THEN e
    ELSE IF s[e] = NewLine THEN 0
    ELSE ValueEnd(s, e + 1)

RECURSIVE MatchAll(_, _)
\* message.matchAll(/- (.*?)：(\d+) \((.*?)\)/g) from position p on
MatchAll(s, p) ==
    IF p + 1 > Len(s) THEN <<>>
    ELSE IF s[p] = Hyphen /\ s[p + 1] = Space /\ ValueEnd(s, p + 2) # 0
    THEN LET e == ValueEnd(s, p + 2)
             to == DigitRunEnd(s, e + 1)
             close == TailEnd(s, e)
         IN <<[value |-> SubSeq(s, p + 2, e - 1),
               score |-> SubSeq(s, e + 1, to - 1),
               name |-> SubSeq(s, to + 2, close - 1)]>> \o MatchAll(s, close + 1)
    ELSE MatchAll(s, p + 1)

\* the matches #handleDataPollingResponse iterates over
Matches(message) ==
    IF message = <<>> \/ message = NoScores THEN <<>>
    ELSE IF ResponseRegexpTest(message) THEN MatchAll(message, 1)
    ELSE <<>>

\* the polling state as one value
Poller == [dataPollingTemp |-> dataPollingTemp,
           pollTimers |-> pollTimers,
           loops |-> loops,
           delivered |-> delivered]

InstallPoller(P) ==
    /\ dataPollingTemp' = P.dataPollingTemp
    /\ pollTimers' = P.pollTimers
    /\ loops' = P.loops
    /\ delivered' = P.delivered

\* the delays of the two setTimeout calls, in ms
SUPPRESS_MS == 3000
POLL_INTERVAL_MS == 50

\* a test that finds no name in #dataPollingTemp
IsSuppressedNever(temp, name) == FALSE

\* this.#dataPollingTemp[name]
IsSuppressed(temp, name) == name \in temp

RECURSIVE HandleMatches(_, _, _, _)
\* the for loop of #handleDataPollingResponse from match j on; ids[j] are the
\* ids #generateId returns to the runCommand of match j
HandleMatches(SP, matches, ids, j) ==
    IF j > Len(matches) THEN SP
    ELSE LET match == matches[j]
             P == SP.P
         IN IF IsSuppressed(P.dataPollingTemp, match.name)
            THEN HandleMatches(SP, matches, ids, j + 1)
            ELSE LET invocation == [value |-> match.value,
                                    score |-> ParseInt(match.score).value,
                                    name |-> match.name,
                                    callback |-> dataCallback,
                                    at |-> now,
                                    threw |-> dataCallback \in ThrowingDataCallbacks]
                     S1 == RunCommandsOn(SP.S, "handleDataPollingResponse", clientConn,
                                         <<RemoveCommand(match.name)>>,
                                         ids[j][1], <<ids[j][2]>>, EmptyMap)
                     P1 == [P EXCEPT
                               !.delivered = IF dataCallback = NoCallback THEN @
                                             ELSE Append(@, invocation),
                               !.dataPollingTemp = @ \cup {match.name},
                               !.pollTimers = @ \cup {[name |-> match.name,
                                                       due |-> now + SUPPRESS_MS]}]
                 IN HandleMatches([S |-> S1, P |-> P1], matches, ids, j + 1)

\* #handleDataPollingResponse(message)
HandleDataPollingResponse(SP, message, ids) ==
    HandleMatches(SP, Matches(message), ids, 1)

\* the loops whose awaited runCommand has settled
Settled(S, P) ==
    {l \in DOMAIN P.loops :
        /\ P.loops[l].pc = "awaiting"
        /\ S.calls[P.loops[l].call].resolved + S.calls[P.loops[l].call].rejected > 0}

\* the message a settled loop hands to #handleDataPollingResponse: results[0],
\* nothing when its runCommand was rejected
Awaited(S, P, l) ==
    IF S.calls[P.loops[l].call].resolved > 0
    THEN S.calls[P.loops[l].call].results[1]
    ELSE <<>>

\* how many ids the continuations of the settled loops may draw
IdsNeeded(S, P) ==
    IF Settled(S, P) = {} THEN 0
    ELSE Len(Matches(Awaited(S, P, CHOOSE l \in Settled(S, P) : TRUE)))

\* #dataPollingLoop from the point its runCommand settles to its next await:
\* the response is handled if there is one, then the loop sleeps
ResumeLoops(SP, ids) ==
    IF Settled(SP.S, SP.P) = {} THEN SP
    ELSE LET l == CHOOSE l \in Settled(SP.S, SP.P) : TRUE
             SP1 == IF SP.S.calls[SP.P.loops[l].call].resolved > 0
                    THEN HandleDataPollingResponse(SP, Awaited(SP.S, SP.P, l), ids)
                    ELSE SP
         IN [SP1 EXCEPT !.P.loops[l] = [@ EXCEPT !.pc = "sleeping",
                                                 !.due = now + POLL_INTERVAL_MS]]

\* a handler has left the server maps as S1: the continuations of the
\* promises it settled run before anything else
Settle(S1) ==
    LET n == IdsNeeded(S1, Poller) IN
    \E b \in NewBatchIds(n) :
    \E r \in NewRequestIds(n) :
        LET SP == ResumeLoops([S |-> S1, P |-> Poller], [j \in 1..n |-> <<b[j], r[j]>>])
        IN /\ Install(SP.S)
           /\ InstallPoller(SP.P)

\* #dataPollingLoop() from a test of its while condition to its next await,
\* for loop l (a new loop when l = Len(loops) + 1, started for connection conn)
\* while #clientConn is current
LoopIteration(S1, l, conn, current, ids) ==
    LET start == [conn |-> conn, pc |-> "stopped", call |-> 0, due |-> 0]
        loops1 == IF l > Len(loops) THEN Append(loops, start) ELSE loops
    IN IF ~ConnUsable(current)
       THEN /\ Install(S1)
            /\ InstallPoller([Poller EXCEPT !.loops = [loops1 EXCEPT ![l].pc = "stopped"]])
       ELSE LET S2 == RunCommandsOn(S1, "dataPollingLoop", current, <<PollQuery>>,
                                    ids[1], <<ids[2]>>, EmptyMap)
            IN /\ Install(S2)
               /\ InstallPoller([Poller EXCEPT
                                    !.loops = [loops1 EXCEPT ![l].pc = "awaiting",
                                                             ![l].call = Len(S2.calls)]])

\* no polling: the state of the polling variables after the constructor
PollingOff ==
    /\ enableDataPolling = FALSE
    /\ dataCallback = NoCallback
    /\ dataPollingTemp = {}
    /\ pollTimers = {}
    /\ loops = <<>>
    /\ delivered = <<>>
    /\ scoreboard = {}
    /\ now = 0

-----------------------------------------------------------------------------
(* Initial state: after the constructor *)

Init ==
    /\ wsServer = FALSE
    /\ clientConn = NoConn
    /\ connClosed = {}
    /\ connCount = 0
    /\ commandBatches = EmptyMap
    /\ requestIdToBatchId = EmptyMap
    /\ calls = <<>>
    /\ sent = <<>>
    /\ answered = {}
    /\ redelivered = {}
    /\ input = NoInput
    /\ transfers = <<>>
    /\ executed = {}
    /\ incomingTransfers = EmptyMap
    /\ listeners = EmptyMap
    /\ bridgeTimers = EmptyMap
    /\ timerCount = 0
    /\ dispatched = <<>>
    /\ currentTick = 0
    /\ diagnostic = NoDiagnostic
    /\ PollingOff

-----------------------------------------------------------------------------
(* Server operations *)

\* start()
Start ==
    /\ ~wsServer
    /\ wsServer' = TRUE
    /\ UNCHANGED <<clientConn, connClosed, connCount, batchVars, gameVars, sendVars,
                   bridgeVars, pollVars>>

\* connections the server is offered: one more while it polls
ConnLimit == IF enableDataPolling THEN MaxConns + MaxReconnects ELSE MaxConns

\* #onOpen(conn): a client connects; the greeting goes through sendMessage,
\* then #dataPollingLoop() runs up to its first await if polling is enabled
OnOpen ==
    /\ wsServer
    /\ connCount < ConnLimit
    /\ LET conn == connCount + 1 IN
       /\ connCount' = conn
       /\ clientConn' = conn
       /\ IF enableDataPolling
          THEN \E b \in NewBatchIds(2) :
               \E r \in NewRequestIds(2) :
                   LoopIteration(SendMessage(Server, conn, <<b[1], r[1]>>),
                                 Len(loops) + 1, conn, conn, <<b[2], r[2]>>)
          ELSE /\ \E b \in NewBatchIds(1) :
                  \E r \in NewRequestIds(1) :
                      Install(SendMessage(Server, conn, <<b[1], r[1]>>))
               /\ UNCHANGED <<dataPollingTemp, pollTimers, loops, delivered>>
    /\ UNCHANGED <<wsServer, connClosed, gameVars, sendVars, bridgeVars,
                   enableDataPolling, dataCallback, scoreboard, now>>

\* the socket of connection conn closes: its `closed` flag becomes true
SockClosed(conn) ==
    /\ conn \in 1..connCount
    /\ conn \notin connClosed
    /\ connClosed' = connClosed \cup {conn}
    /\ UNCHANGED <<wsServer, clientConn, connCount, batchVars, gameVars, sendVars,
                   bridgeVars, pollVars>>

\* #onClose(conn, code, reason)
OnClose(conn) ==
    /\ conn \in connClosed
    /\ wsServer
    /\ clientConn = conn
    /\ clientConn' = NoConn
    /\ UNCHANGED <<wsServer, connClosed, connCount, batchVars, gameVars, sendVars,
                   bridgeVars, pollVars>>

\* runCommands(commands) called by a user of the server
RunCommands ==
    \E n \in 0..MaxCmds :
        /\ UserCalls < MaxCalls
        /\ \E b \in NewBatchIds(1) :
           \E r \in NewRequestIds(n) :
               Install(RunCommandsOn(Server, "runCommands", clientConn, SayCommands(n),
                                     b[1], r, EmptyMap))
        /\ UNCHANGED <<connVars, gameVars, sendVars, bridgeVars, pollVars>>

\* runCommand(command) called by a user of the server: runCommands([command]);
\* a command that is too long makes #internalRunCommand call sendMessage, which
\* draws the ids b[2], r[2] for its own runCommand
RunCommand ==
    \E command \in {SayCommand(1), LongCommand} :
        LET m == Cardinality(TooLong(<<command>>)) IN
        /\ UserCalls < MaxCalls
        /\ \E b \in NewBatchIds(1 + m) :
           \E r \in NewRequestIds(1 + m) :
               Install(RunCommandsOn(Server, "runCommand", clientConn, <<command>>,
                                     b[1], <<r[1]>>, NestIds(<<command>>, b, r)))
        /\ UNCHANGED <<connVars, gameVars, sendVars, bridgeVars, pollVars>>

\* the statusMessage the game client reports for a command line: the command
\* echoed, nothing for a scriptevent
StatusMessageOf(commandLine) ==
    IF /\ Len(commandLine) > Len(ScriptEventPrefix)
       /\ SubSeq(commandLine, 1, Len(ScriptEventPrefix)) = ScriptEventPrefix
    THEN <<>>
    ELSE commandLine

\* body.statusMessage || "success"
StatusOrSuccess(statusMessage) == IF statusMessage = <<>> THEN Success ELSE statusMessage

\* the commandResponse branch without clearTimeout
OnTextResponseNoClearTimeout(S, requestId, statusMessage) ==
    IF ~MapHas(S.requestIdToBatchId, requestId) THEN S
    ELSE LET batchId == S.requestIdToBatchId[requestId] IN
         IF ~MapHas(S.commandBatches, batchId) THEN S
         ELSE LET k == S.commandBatches[batchId]
                  results == Append(S.calls[k].results, StatusOrSuccess(statusMessage))
                  S1 == [S EXCEPT !.requestIdToBatchId = MapDelete(@, requestId),
                                  !.calls[k].results = results]
              IN IF Len(results) = S.calls[k].commandCount
                 THEN [S1 EXCEPT !.commandBatches = MapDelete(@, batchId),
                                 !.calls[k].resolved = @ + 1]
                 ELSE S1

\* the commandResponse branch storing each result at the front of the list
OnTextResponseUnshift(S, requestId, statusMessage) ==
    IF ~MapHas(S.requestIdToBatchId, requestId) THEN S
    ELSE LET batchId == S.requestIdToBatchId[requestId] IN
         IF ~MapHas(S.commandBatches, batchId) THEN S
         ELSE LET k == S.commandBatches[batchId]
                  results == <<StatusOrSuccess(statusMessage)>> \o S.calls[k].results
                  S1 == [S EXCEPT !.requestIdToBatchId = MapDelete(@, requestId),
                                  !.calls[k].results = results]
              IN IF Len(results) = S.calls[k].commandCount
                 THEN [S1 EXCEPT !.calls[k].timeout = FALSE,
                                 !.commandBatches = MapDelete(@, batchId),
                                 !.calls[k].resolved = @ + 1]
                 ELSE S1

\* the commandResponse branch of #onText
OnTextResponse(S, requestId, statusMessage) ==
    IF ~MapHas(S.requestIdToBatchId, requestId) THEN S
    ELSE LET batchId == S.requestIdToBatchId[requestId] IN
         IF ~MapHas(S.commandBatches, batchId) THEN S
         ELSE LET k == S.commandBatches[batchId]
                  results == Append(S.calls[k].results, StatusOrSuccess(statusMessage))
                  S1 == [S EXCEPT !.requestIdToBatchId = MapDelete(@, requestId),
                                  !.calls[k].results = results]
              IN IF Len(results) = S.calls[k].commandCount
                 THEN [S1 EXCEPT !.calls[k].timeout = FALSE,
                                 !.commandBatches = MapDelete(@, batchId),
                                 !.calls[k].resolved = @ + 1]
                 ELSE S1

\* the statusMessage of the game's answer: the listing for the poll query
GameStatus(commandLine) ==
    IF commandLine = PollQuery THEN Listing(scoreboard) ELSE StatusMessageOf(commandLine)

\* what the game tracks for yb:data once it has run commandLine
GameRun(board, commandLine) ==
    {entry \in board : commandLine # RemoveCommand(entry.name)}

\* the game client runs and answers transmitted request i; the answer reaches
\* #onText, and a polling loop that awaited it goes on
Respond(i) ==
    /\ i \in DOMAIN sent
    /\ i \notin answered
    /\ sent[i].conn \notin connClosed
    /\ answered' = answered \cup {i}
    /\ Settle(OnTextResponse(Server, sent[i].requestId, GameStatus(sent[i].commandLine)))
    /\ scoreboard' = GameRun(scoreboard, sent[i].commandLine)
    /\ UNCHANGED <<connVars, redelivered, executed, sendVars, bridgeVars,
                   enableDataPolling, dataCallback, now>>

\* the game client sends the answer to request i once more
RespondAgain(i) ==
    /\ i \in answered
    /\ i \notin redelivered
    /\ Cardinality(redelivered) < MaxDuplicates
    /\ sent[i].conn \notin connClosed
    /\ redelivered' = redelivered \cup {i}
    /\ Settle(OnTextResponse(Server, sent[i].requestId, GameStatus(sent[i].commandLine)))
    /\ UNCHANGED <<connVars, answered, executed, sendVars, bridgeVars,
                   enableDataPolling, dataCallback, scoreboard, now>>

\* the setTimeout callback of batch record k
TimeoutOn(S, k) ==
    [S EXCEPT !.requestIdToBatchId = MapDeleteAll(@, S.calls[k].requestIds, 1),
              !.commandBatches = MapDelete(@, S.calls[k].batchId),
              !.calls[k].timeout = FALSE,
              !.calls[k].rejected = @ + 1]

\* the batch timer of record k fires; all timers run for #requestTimeoutMs, so
\* they fire in the order they were armed; a polling loop that awaited the
\* batch goes on
Timeout(k) ==
    /\ k \in DOMAIN calls
    /\ calls[k].timeout
    /\ \A j \in 1..(k - 1) : ~calls[j].timeout
    /\ Settle(TimeoutOn(Server, k))
    /\ UNCHANGED <<connVars, gameVars, sendVars, bridgeVars,
                   enableDataPolling, dataCallback, scoreboard, now>>

-----------------------------------------------------------------------------
(* Data polling *)

\* onData(callback) of the server
OnDataCallback(callback) ==
    /\ dataCallback = NoCallback
    /\ dataCallback' = callback
    /\ UNCHANGED <<connVars, batchVars, gameVars, sendVars, bridgeVars,
                   enableDataPolling, dataPollingTemp, pollTimers, loops, delivered,
                   scoreboard, now>>

\* poll queries issued so far by loops that had slept
Polls ==
    Cardinality({k \in DOMAIN calls : calls[k].api = "dataPollingLoop"}) - Len(loops)

\* the sleep of loop l ends: the loop tests its condition again
Wake(l) ==
    /\ l \in DOMAIN loops
    /\ loops[l].pc = "sleeping"
    /\ loops[l].due <= now
    /\ ConnUsable(clientConn) => Polls < MaxPolls
    /\ \E b \in NewBatchIds(1) :
       \E r \in NewRequestIds(1) :
           LoopIteration(Server, l, loops[l].conn, clientConn, <<b[1], r[1]>>)
    /\ UNCHANGED <<connVars, gameVars, sendVars, bridgeVars,
                   enableDataPolling, dataCallback, scoreboard, now>>

\* a suppression timer fires: delete this.#dataPollingTemp[name]
Unsuppress(timer) ==
    /\ timer \in pollTimers
    /\ timer.due <= now
    /\ dataPollingTemp' = dataPollingTemp \ {timer.name}
    /\ pollTimers' = pollTimers \ {timer}
    /\ UNCHANGED <<connVars, batchVars, gameVars, sendVars, bridgeVars,
                   enableDataPolling, dataCallback, loops, delivered, scoreboard, now>>

\* the instants the clock is observed at
PollInstants == {0, POLL_INTERVAL_MS, SUPPRESS_MS, SUPPRESS_MS + POLL_INTERVAL_MS}

\* time passes on the server
Tick(t) ==
    /\ t \in PollInstants
    /\ t > now
    /\ now' = t
    /\ UNCHANGED <<connVars, batchVars, gameVars, sendVars, bridgeVars,
                   enableDataPolling, dataCallback, dataPollingTemp, pollTimers, loops,
                   delivered, scoreboard>>

\* the add-on has the game track entry for yb:data
Track(entry) ==
    /\ \A other \in scoreboard : other.name # entry.name
    /\ scoreboard' = scoreboard \cup {entry}
    /\ UNCHANGED <<connVars, batchVars, gameVars, sendVars, bridgeVars,
                   enableDataPolling, dataCallback, dataPollingTemp, pollTimers, loops,
                   delivered, now>>

-----------------------------------------------------------------------------
(* sendData *)

\* the record kept of one sendData(name, data) invocation: what it computed and
\* how it ended before its await (error is the message it threw, "none" if none)
SendDataRecord(name, data, dataString, transferId, chunks, error, call) ==
    [name |-> name, data |-> data, dataString |-> dataString,
     transferId |-> transferId, chunks |-> chunks, error |-> error, call |-> call]

\* sendData(name, data) up to its await of runCommands
SendData ==
    /\ input # NoInput
    /\ transfers = <<>>
    /\ UserCalls < MaxCalls
    /\ LET name == input.name
           data == input.data
       IN IF ~ConnUsable(clientConn)
          THEN /\ transfers' = Append(transfers, SendDataRecord(name, data, <<>>, <<>>,
                                                                <<>>, "connection", 0))
               /\ UNCHANGED batchVars
          ELSE IF ~NameOk(name)
          THEN /\ transfers' = Append(transfers, SendDataRecord(name, data, <<>>, <<>>,
                                                                <<>>, "name", 0))
               /\ UNCHANGED batchVars
          ELSE IF Len(name) > MaxNameLength
          THEN /\ transfers' = Append(transfers, SendDataRecord(name, data, <<>>, <<>>,
                                                                <<>>, "name-length", 0))
               /\ UNCHANGED batchVars
          ELSE LET dataString == EscapeNonAscii(JsonStringify(data))
                   transferId == TransferIdText(Len(transfers) + 1)
                   packets == Packetize(dataString, 0, <<>>, name, transferId)
                   commands == TransferCommands(name, transferId, packets.chunks)
                   m == Cardinality(TooLong(commands))
               IN IF packets.failed
                  THEN /\ transfers' = Append(transfers,
                                              SendDataRecord(name, data, dataString,
                                                             transferId, packets.chunks,
                                                             "overhead", 0))
                       /\ UNCHANGED batchVars
                  ELSE /\ transfers' = Append(transfers,
                                              SendDataRecord(name, data, dataString,
                                                             transferId, packets.chunks,
                                                             "none", Len(calls) + 1))
                       /\ \E b \in NewBatchIds(1 + m) :
                          \E r \in NewRequestIds(Len(commands) + m) :
                              Install(RunCommandsOn(Server, "sendData", clientConn,
                                                    commands, b[1],
                                                    SubSeq(r, 1, Len(commands)),
                                                    NestIds(commands, b, r)))
    /\ UNCHANGED <<connVars, gameVars, input, bridgeVars, pollVars>>

\* how the promise of a sendData invocation stands: rejected by a throw before
\* the await; otherwise settled once the awaited runCommands promise is, and
\* then resolved either way, the catch block only logging
SendDataOutcome(transfer) ==
    IF transfer.error # "none" THEN "rejected"
    ELSE IF calls[transfer.call].resolved > 0 THEN "resolved"
    ELSE IF calls[transfer.call].rejected > 0 THEN "resolved"
    ELSE "pending"

-----------------------------------------------------------------------------
(* WebSocketBridge: the receiving side *)

Bridge == [incomingTransfers |-> incomingTransfers,
           listeners |-> listeners,
           bridgeTimers |-> bridgeTimers,
           timerCount |-> timerCount,
           dispatched |-> dispatched,
           currentTick |-> currentTick,
           diagnostic |-> diagnostic]

InstallBridge(B) ==
    /\ incomingTransfers' = B.incomingTransfers
    /\ listeners' = B.listeners
    /\ bridgeTimers' = B.bridgeTimers
    /\ timerCount' = B.timerCount
    /\ dispatched' = B.dispatched
    /\ currentTick' = B.currentTick
    /\ diagnostic' = B.diagnostic

RECURSIVE NextColon(_, _)
\* position of the first colon of message at or after i (Len + 1 if none)
NextColon(message, i) ==
    IF i > Len(message) THEN Len(message) + 1
    ELSE IF message[i] = Colon THEN i
    ELSE NextColon(message, i + 1)

RECURSIVE NthColon(_, _)
\* position of the n-th colon of message (0 for n = 0, Len + 1 past the last one)
NthColon(message, n) ==
    IF n = 0 THEN 0
    ELSE LET previous == NthColon(message, n - 1)
         IN IF previous > Len(message) THEN previous
            ELSE NextColon(message, previous + 1)

\* message.split(":")[k]; <<>> also stands for undefined (k >= parts.length)
Part(message, k) ==
    LET from == NthColon(message, k)
    IN IF from > Len(message) THEN <<>>
       ELSE SubSeq(message, from + 1, NextColon(message, from + 1) - 1)

\* parts.slice(3).join(":")
ChunkData(message) ==
    LET from == NthColon(message, 3)
    IN IF from > Len(message) THEN <<>>
       ELSE SubSeq(message, from + 1, Len(message))

\* "START", "DATA", "END"
StartType == <<83, 84, 65, 82, 84>>
DataType == <<68, 65, 84, 65>>
EndType == <<69, 78, 68>>

\* a clearRun that cancels nothing
ClearRunNothing(timers, handle) == timers

\* system.clearRun(handle)
ClearRun(timers, handle) == MapDelete(timers, handle)

\* the reassembly loop run from the last index down to 0
ReassembleReversed(transfer) ==
    IF \E i \in 0..(transfer.totalChunks - 1) : ~MapHas(transfer.receivedChunks, i)
    THEN [ok |-> FALSE,
          missing |-> CHOOSE i \in 0..(transfer.totalChunks - 1) :
                         ~MapHas(transfer.receivedChunks, i)]
    ELSE [ok |-> TRUE,
          string |-> Flatten([i \in 1..transfer.totalChunks |->
                                 transfer.receivedChunks[transfer.totalChunks - i]],
                             1, transfer.totalChunks)]

\* the reassembly loop with a missing chunk read as the empty string
ReassembleSkipsMissing(transfer) ==
    [ok |-> TRUE,
     string |-> Flatten([i \in 1..transfer.totalChunks |->
                            IF MapHas(transfer.receivedChunks, i - 1)
                            THEN transfer.receivedChunks[i - 1] ELSE <<>>],
                        1, transfer.totalChunks)]

\* the reassembly loop of processCompleteTransfer: [ok |-> FALSE] at a missing chunk
Reassemble(transfer) ==
    IF \E i \in 0..(transfer.totalChunks - 1) : ~MapHas(transfer.receivedChunks, i)
    THEN [ok |-> FALSE,
          missing |-> CHOOSE i \in 0..(transfer.totalChunks - 1) :
                         /\ ~MapHas(transfer.receivedChunks, i)
                         /\ \A j \in 0..(i - 1) : MapHas(transfer.receivedChunks, j)]
    ELSE [ok |-> TRUE,
          string |-> Flatten([i \in 1..transfer.totalChunks |->
                                 transfer.receivedChunks[i - 1]],
                             1, transfer.totalChunks)]

\* a lookup under a name no listener is registered for
ListenerKeyNone(transfer) == <<>>

\* the name processCompleteTransfer looks the listener up under
ListenerKey(transfer) == transfer.name

\* the callbacks registered with onData: 1 and 2 return, 3 throws
Callbacks == 1..3
ThrowingCallbacks == {3}

\* processCompleteTransfer removing the record only after the listener returned
ProcessCompleteTransferDeleteLast(B, transferId, transfer) ==
    LET B1 == [B EXCEPT !.bridgeTimers = ClearRun(@, transfer.timeout),
                        !.incomingTransfers = MapDelete(@, transferId)]
        reassembled == Reassemble(transfer)
    IN IF ~reassembled.ok
       THEN [B1 EXCEPT !.diagnostic = [kind |-> "missingChunk",
                                       transferId |-> transferId,
                                       index |-> reassembled.missing]]
       ELSE LET parsed == JsonParse(reassembled.string)
                finalData == IF parsed.ok THEN parsed.value
                             ELSE [type |-> "string", chars |-> reassembled.string]
                invocation == [name |-> transfer.name,
                               listener |-> B.listeners[ListenerKey(transfer)],
                               data |-> finalData,
                               delay |-> B.currentTick - transfer.startTime,
                               reassembledString |-> reassembled.string,
                               transferId |-> transferId,
                               rewritten |-> transfer.rewritten,
                               threw |-> B.listeners[ListenerKey(transfer)] \in ThrowingCallbacks]
            IN IF ~MapHas(B1.listeners, ListenerKey(transfer)) THEN B1
               ELSE IF invocation.threw
               THEN [B EXCEPT !.dispatched = Append(@, invocation),
                              !.diagnostic = [kind |-> "dispatchFailed",
                                              name |-> transfer.name]]
               ELSE [B1 EXCEPT !.dispatched = Append(@, invocation)]

\* processCompleteTransfer(transferId, transfer); an entry of dispatched is one
\* listener invocation: threw tells whether the callback threw, and the fields
\* transferId and rewritten are bookkeeping for the properties
ProcessCompleteTransfer(B, transferId, transfer) ==
    LET B1 == [B EXCEPT !.bridgeTimers = ClearRun(@, transfer.timeout),
                        !.incomingTransfers = MapDelete(@, transferId)]
        reassembled == Reassemble(transfer)
    IN IF ~reassembled.ok
       THEN [B1 EXCEPT !.diagnostic = [kind |-> "missingChunk",
                                       transferId |-> transferId,
                                       index |-> reassembled.missing]]
       ELSE LET parsed == JsonParse(reassembled.string)
                finalData == IF parsed.ok THEN parsed.value
                             ELSE [type |-> "string", chars |-> reassembled.string]
                invocation == [name |-> transfer.name,
                               listener |-> B.listeners[ListenerKey(transfer)],
                               data |-> finalData,
                               delay |-> B.currentTick - transfer.startTime,
                               reassembledString |-> reassembled.string,
                               transferId |-> transferId,
                               rewritten |-> transfer.rewritten,
                               threw |-> B.listeners[ListenerKey(transfer)] \in ThrowingCallbacks]
            IN IF ~MapHas(B1.listeners, ListenerKey(transfer)) THEN B1
               ELSE IF invocation.threw
               THEN [B1 EXCEPT !.dispatched = Append(@, invocation),
                               !.diagnostic = [kind |-> "dispatchFailed",
                                               name |-> transfer.name]]
               ELSE [B1 EXCEPT !.dispatched = Append(@, invocation)]

\* receivedChunks.set that keeps the value an index already has
StoreChunkKeepFirst(receivedChunks, chunkIndex, chunkData) ==
    IF MapHas(receivedChunks, chunkIndex) THEN receivedChunks
    ELSE MapSet(receivedChunks, chunkIndex, chunkData)

\* transfer.receivedChunks.set(chunkIndex, chunkData)
StoreChunk(receivedChunks, chunkIndex, chunkData) ==
    MapSet(receivedChunks, chunkIndex, chunkData)

\* END that reassembles whatever has been received
IsCompleteAlways(transfer) == TRUE

\* transfer.receivedChunks.size === transfer.totalChunks
IsComplete(transfer) ==
    Cardinality(DOMAIN transfer.receivedChunks) = transfer.totalChunks

\* START cancelling every armed timer
SupersededTimersNone(B, transferId) == EmptyMap

\* START leaving the timer of the record it replaces armed
SupersededTimersKept(B, transferId) == B.bridgeTimers

\* the armed timers once START has cleared the one of a record it replaces
SupersededTimers(B, transferId) ==
    IF MapHas(B.incomingTransfers, transferId)
    THEN ClearRun(B.bridgeTimers, B.incomingTransfers[transferId].timeout)
    ELSE B.bridgeTimers

\* handleScriptEvent({id, message}); the field rewritten of a transfer record
\* (the indices stored more than once) is bookkeeping for the properties
HandleScriptEvent(B, id, message) ==
    LET name == SubSeq(id, 4, Len(id))
        type == Part(message, 0)
    IN IF type = StartType
       THEN LET totalChunks == ParseInt(Part(message, 1))
                transferId == Part(message, 2)
            IN IF totalChunks.nan \/ transferId = <<>>
               THEN [B EXCEPT !.diagnostic = [kind |-> "invalidStart",
                                              message |-> message]]
               ELSE LET timers1 == SupersededTimers(B, transferId)
                        timeout == B.timerCount + 1
                    IN [B EXCEPT !.timerCount = timeout,
                                 !.bridgeTimers =
                                     MapSet(timers1, timeout,
                                            [transferId |-> transferId,
                                             name |-> name,
                                             due |-> B.currentTick + TIMEOUT_TICKS]),
                                 !.incomingTransfers =
                                     MapSet(@, transferId,
                                            [name |-> name,
                                             totalChunks |-> totalChunks.value,
                                             receivedChunks |-> EmptyMap,
                                             timeout |-> timeout,
                                             startTime |-> B.currentTick,
                                             rewritten |-> {}])]
       ELSE IF type = DataType
       THEN LET chunkIndex == ParseInt(Part(message, 1))
                transferId == Part(message, 2)
                chunkData == ChunkData(message)
            IN IF chunkIndex.nan \/ transferId = <<>>
               THEN [B EXCEPT !.diagnostic = [kind |-> "invalidData",
                                              message |-> message]]
               ELSE IF ~MapHas(B.incomingTransfers, transferId) THEN B
               ELSE LET transfer == B.incomingTransfers[transferId]
                    IN [B EXCEPT !.incomingTransfers[transferId] =
                           [transfer EXCEPT
                               !.receivedChunks =
                                   StoreChunk(@, chunkIndex.value, chunkData),
                               !.rewritten =
                                   IF MapHas(transfer.receivedChunks, chunkIndex.value)
                                   THEN @ \cup {chunkIndex.value} ELSE @]]
       ELSE IF type = EndType
       THEN LET transferId == Part(message, 1)
            IN IF ~MapHas(B.incomingTransfers, transferId) THEN B
               ELSE LET transfer == B.incomingTransfers[transferId]
                    IN IF IsComplete(transfer)
                       THEN ProcessCompleteTransfer(B, transferId, transfer)
                       ELSE [B EXCEPT !.diagnostic =
                                          [kind |-> "incomplete",
                                           transferId |-> transferId,
                                           expected |-> transfer.totalChunks,
                                           received |-> Cardinality(DOMAIN transfer.receivedChunks)],
                                      !.bridgeTimers = ClearRun(@, transfer.timeout),
                                      !.incomingTransfers = MapDelete(@, transferId)]
       ELSE B

\* a runTimeout callback that leaves the transfer record in place
TimeoutCallbackKeepsRecord(B, handle) ==
    [B EXCEPT !.bridgeTimers = MapDelete(@, handle),
              !.diagnostic = [kind |-> "timeout",
                              transferId |-> B.bridgeTimers[handle].transferId,
                              name |-> B.bridgeTimers[handle].name]]

\* the callback START hands to system.runTimeout, run by the timer handle
TimeoutCallback(B, handle) ==
    [B EXCEPT !.incomingTransfers = MapDelete(@, B.bridgeTimers[handle].transferId),
              !.bridgeTimers = MapDelete(@, handle),
              !.diagnostic = [kind |-> "timeout",
                              transferId |-> B.bridgeTimers[handle].transferId,
                              name |-> B.bridgeTimers[handle].name]]

\* the timer armed by START comes due: the transfer expires
Expire(handle) ==
    /\ MapHas(bridgeTimers, handle)
    /\ bridgeTimers[handle].due = currentTick
    /\ InstallBridge(TimeoutCallback(Bridge, handle))
    /\ UNCHANGED <<connVars, batchVars, gameVars, sendVars, pollVars>>

\* ticks at which the model looks at the game: the multiples of TIMEOUT_TICKS
Instants == {k * TIMEOUT_TICKS : k \in 0..(MaxStarts + MaxRestarts)}
MaxTick == (MaxStarts + MaxRestarts) * TIMEOUT_TICKS

\* game time passes, up to the tick the next armed timer is due at
Advance(t) ==
    /\ t \in Instants
    /\ t > currentTick
    /\ \A handle \in DOMAIN bridgeTimers : t <= bridgeTimers[handle].due
    /\ currentTick' = t
    /\ UNCHANGED <<connVars, batchVars, gameVars, sendVars, incomingTransfers,
                   listeners, bridgeTimers, timerCount, dispatched, diagnostic, pollVars>>

-----------------------------------------------------------------------------
(* The game: runs the commands it receives *)

IsScriptEvent(commandLine) ==
    /\ Len(commandLine) > Len(ScriptEventPrefix)
    /\ SubSeq(commandLine, 1, Len(ScriptEventPrefix)) = ScriptEventPrefix

\* the end of the event id: the first blank after "scriptevent "
ScriptEventIdEnd(commandLine) ==
    CHOOSE i \in 13..(Len(commandLine) + 1) :
        /\ i <= Len(commandLine) => commandLine[i] = Space
        /\ \A j \in 13..(i - 1) : commandLine[j] # Space

\* `scriptevent <id> <message>`: the event the game raises
ScriptEventId(commandLine) == SubSeq(commandLine, 13, ScriptEventIdEnd(commandLine) - 1)
ScriptEventMessage(commandLine) ==
    SubSeq(commandLine, ScriptEventIdEnd(commandLine) + 1, Len(commandLine))

\* the game runs transmitted command i; a scriptevent in namespace yb reaches
\* handleScriptEvent
McExecute(i) ==
    /\ i \in DOMAIN sent
    /\ i \notin executed
    /\ executed' = executed \cup {i}
    /\ IF IsScriptEvent(sent[i].commandLine)
       THEN InstallBridge(HandleScriptEvent(Bridge, ScriptEventId(sent[i].commandLine),
                                            ScriptEventMessage(sent[i].commandLine)))
       ELSE UNCHANGED bridgeVars
    /\ UNCHANGED <<connVars, batchVars, answered, redelivered, sendVars, pollVars>>

-----------------------------------------------------------------------------
(* Specifications *)

\* onData(name, callback)
OnData(registry, name, callback) == MapSet(registry, name, callback)

\* offData(name)
OffData(registry, name) == MapDelete(registry, name)

\* payloads handed to sendData
NumberData(v) == [type |-> "number", value |-> v]
StringData(chars) == [type |-> "string", chars |-> chars]
Ones(m) == [type |-> "array", items |-> [i \in 1..m |-> 1]]
TenOnes(m) == [type |-> "array", items |-> [i \in 1..(m + 1) |-> IF i = 1 THEN 10 ELSE 1]]
Wide(n) == StringData([i \in 1..n |-> 233])
Mixed(n) ==
    StringData([i \in 1..(3 * n) |->
                   IF i % 3 = 1 THEN Colon ELSE IF i % 3 = 2 THEN Backslash ELSE Quote])

\* channel names: "n", a name of 64 characters, one of 65, and "a b"
ShortName == <<110>>
LongestName == [i \in 1..MaxNameLength |-> 110]
OverlongName == [i \in 1..(MaxNameLength + 1) |-> 110]
BadName == <<97, Space, 98>>

\* the sendData(name, data) calls explored
XferInputs ==
    {[name |-> ShortName, data |-> d] :
        d \in {NumberData(5), NumberData(12), StringData(<<>>),
               StringData(<<97, Colon, 98, Quote, 99, Backslash, 233, Space, 10>>),
               Wide(100), Mixed(100), Ones(257), Ones(258), TenOnes(256),
               TenOnes(514), Ones(600)}}
    \cup {[name |-> LongestName, data |-> Ones(300)],
          [name |-> OverlongName, data |-> NumberData(12)],
          [name |-> BadName, data |-> NumberData(12)]}

\* The command channel: connections, batches of commands, responses, timeouts
Next ==
    \/ Start
    \/ OnOpen
    \/ \E conn \in 1..MaxConns : SockClosed(conn)
    \/ \E conn \in 1..MaxConns : OnClose(conn)
    \/ RunCommands
    \/ RunCommand
    \/ \E i \in DOMAIN sent : Respond(i)
    \/ \E i \in DOMAIN sent : RespondAgain(i)
    \/ \E k \in DOMAIN calls : Timeout(k)

Spec == Init /\ [][Next]_vars

\* The data channel: one sendData(name, data) call on an open connection whose
\* greeting has been answered, with a listener registered for the name; the
\* game runs the transmitted commands in any order
InitXfer ==
    /\ wsServer = TRUE
    /\ clientConn = 1
    /\ connClosed = {}
    /\ connCount = 1
    /\ LET S0 == [commandBatches |-> EmptyMap, requestIdToBatchId |-> EmptyMap,
                  calls |-> <<>>, sent |-> <<>>]
           S1 == RunCommandsOn(S0, "sendMessage", 1, <<TellrawCommand>>, 1, <<1>>,
                               EmptyMap)
           S2 == OnTextResponse(S1, 1, StatusMessageOf(TellrawCommand))
       IN /\ commandBatches = S2.commandBatches
          /\ requestIdToBatchId = S2.requestIdToBatchId
          /\ calls = S2.calls
          /\ sent = S2.sent
    /\ answered = {1}
    /\ redelivered = {}
    /\ executed = {1}
    /\ input \in XferInputs
    /\ transfers = <<>>
    /\ incomingTransfers = EmptyMap
    /\ listeners = OnData(EmptyMap, input.name, 1)
    /\ bridgeTimers = EmptyMap
    /\ timerCount = 0
    /\ dispatched = <<>>
    /\ currentTick = 0
    /\ diagnostic = NoDiagnostic
    /\ PollingOff

NextXfer ==
    \/ SendData
    \/ \E i \in DOMAIN sent : McExecute(i)
    \/ \E handle \in DOMAIN bridgeTimers : Expire(handle)
    \/ \E t \in Instants : Advance(t)

SpecXfer == InitXfer /\ [][NextXfer]_vars

\* The data channel seen from the caller: one sendData call of a few commands
\* or with arguments it refuses, on a connection that may have closed; the
\* game answers the commands in any order or not at all
SendInputs ==
    {[name |-> ShortName, data |-> d] :
        d \in {NumberData(5), NumberData(12), Ones(257), Ones(600)}}
    \cup {[name |-> OverlongName, data |-> NumberData(12)],
          [name |-> BadName, data |-> NumberData(12)]}

InitSend == InitXfer /\ input \in SendInputs

NextSend ==
    \/ SendData
    \/ \E conn \in 1..MaxConns : SockClosed(conn) \/ OnClose(conn)
    \/ \E i \in DOMAIN sent : Respond(i)
    \/ \E k \in DOMAIN calls : Timeout(k)

SpecSend == InitSend /\ [][NextSend]_vars

\* the messages of the transfer protocol, as text
StartMessage(total, transferId) == StartType \o <<Colon>> \o total \o <<Colon>> \o transferId
DataMessage(index, transferId, chunk) ==
    DataType \o <<Colon>> \o index \o <<Colon>> \o transferId \o <<Colon>> \o chunk
EndMessage(transferId) == EndType \o <<Colon>> \o transferId

\* the transfer id "a"; the totals "x", "-1", "0", "2", "4"; the indices "0",
\* "1", "3"; the chunks "p" and "q", "q" being sent for index "0" only
TransferA == <<97>>
TotalTexts == {<<120>>, <<45, 49>>, <<48>>, <<50>>, <<52>>}
IndexTexts == {<<48>>, <<49>>, <<51>>}
ChunkTexts == {<<112>>, <<113>>}
ChunksAt(index) == IF index = <<48>> THEN ChunkTexts ELSE {<<112>>}

\* the messages the bridge is fed
BridgeMessages ==
    {StartMessage(total, TransferA) : total \in TotalTexts}
    \cup UNION {{DataMessage(index, TransferA, chunk) : chunk \in ChunksAt(index)} :
                    index \in IndexTexts}
    \cup {EndMessage(TransferA)}

\* the event id of channel "n": "yb:n"
EventIdN == <<121, 98, Colon>> \o ShortName

\* the scriptEventReceive subscription: the game raises an event of namespace yb
ScriptEventReceive(id, message) ==
    /\ Part(message, 0) = StartType
          => /\ timerCount < MaxStarts
             /\ currentTick + TIMEOUT_TICKS <= MaxTick
    /\ InstallBridge(HandleScriptEvent(Bridge, id, message))
    /\ UNCHANGED <<connVars, batchVars, gameVars, sendVars, pollVars>>

\* The receiving side alone: a bridge with a listener for channel "n", fed
\* any sequence of START, DATA and END messages while game time passes
InitBridge ==
    /\ wsServer = FALSE
    /\ clientConn = NoConn
    /\ connClosed = {}
    /\ connCount = 0
    /\ commandBatches = EmptyMap
    /\ requestIdToBatchId = EmptyMap
    /\ calls = <<>>
    /\ sent = <<>>
    /\ answered = {}
    /\ redelivered = {}
    /\ executed = {}
    /\ input = NoInput
    /\ transfers = <<>>
    /\ incomingTransfers = EmptyMap
    /\ listeners = OnData(EmptyMap, ShortName, 1)
    /\ bridgeTimers = EmptyMap
    /\ timerCount = 0
    /\ dispatched = <<>>
    /\ currentTick = 0
    /\ diagnostic = NoDiagnostic
    /\ PollingOff

NextBridge ==
    \/ \E message \in BridgeMessages : ScriptEventReceive(EventIdN, message)
    \/ \E handle \in DOMAIN bridgeTimers : Expire(handle)
    \/ \E t \in Instants : Advance(t)

SpecBridge == InitBridge /\ [][NextBridge]_vars

\* the transfer id "b", the channel name "m" and its event id "yb:m"
TransferB == <<98>>
OtherName == <<109>>
EventIdM == <<121, 98, Colon>> \o OtherName

\* messages about two transfers: "a", announced with one or two chunks and
\* sent the chunk "p" for index 0, and "b", only announced
ChannelMessages ==
    {StartMessage(<<49>>, TransferA), StartMessage(<<50>>, TransferA),
     DataMessage(<<48>>, TransferA, <<112>>), EndMessage(TransferA),
     StartMessage(<<49>>, TransferB)}

\* malformed messages: an unknown type, an unparsable total, an unparsable
\* index, START and DATA without a transfer id, END without one, the empty
\* message
MalformedMessages ==
    {<<70, 79, 79>> \o <<Colon, 49, Colon>> \o TransferA,
     StartMessage(<<120>>, TransferA),
     DataMessage(<<120>>, TransferA, <<112>>),
     StartType \o <<Colon, 49>>,
     DataType \o <<Colon, 48>>,
     EndType,
     <<>>}

\* the game raises an event of namespace yb while two transfer ids are in use
ChannelEvent(id, message) ==
    /\ Part(message, 0) = StartType
          => /\ timerCount < MaxStarts + MaxRestarts
             /\ currentTick + TIMEOUT_TICKS <= MaxTick
    /\ InstallBridge(HandleScriptEvent(Bridge, id, message))
    /\ UNCHANGED <<connVars, batchVars, gameVars, sendVars, pollVars>>

\* a script of the game calls onData(name, callback)
OnDataCall(name, callback) ==
    /\ listeners' = OnData(listeners, name, callback)
    /\ UNCHANGED <<connVars, batchVars, gameVars, sendVars, incomingTransfers,
                   bridgeTimers, timerCount, dispatched, currentTick, diagnostic, pollVars>>

\* a script of the game calls offData(name)
OffDataCall(name) ==
    /\ listeners' = OffData(listeners, name)
    /\ UNCHANGED <<connVars, batchVars, gameVars, sendVars, incomingTransfers,
                   bridgeTimers, timerCount, dispatched, currentTick, diagnostic, pollVars>>

\* the onData calls explored after the two of the initial state: the throwing
\* callback 3 for channel "n"
Registrations == {<<ShortName, 3>>}

\* The receiving side with its registry: after onData("n", 1) and
\* onData("m", 2), listeners come and go while the bridge is fed well-formed
\* and malformed messages on two channels
InitChannels ==
    /\ wsServer = FALSE
    /\ clientConn = NoConn
    /\ connClosed = {}
    /\ connCount = 0
    /\ commandBatches = EmptyMap
    /\ requestIdToBatchId = EmptyMap
    /\ calls = <<>>
    /\ sent = <<>>
    /\ answered = {}
    /\ redelivered = {}
    /\ executed = {}
    /\ input = NoInput
    /\ transfers = <<>>
    /\ incomingTransfers = EmptyMap
    /\ listeners = OnData(OnData(EmptyMap, ShortName, 1), OtherName, 2)
    /\ bridgeTimers = EmptyMap
    /\ timerCount = 0
    /\ dispatched = <<>>
    /\ currentTick = 0
    /\ diagnostic = NoDiagnostic
    /\ PollingOff

NextChannels ==
    \/ \E id \in {EventIdN, EventIdM} :
       \E message \in ChannelMessages \cup MalformedMessages : ChannelEvent(id, message)
    \/ \E registration \in Registrations : OnDataCall(registration[1], registration[2])
    \/ OffDataCall(ShortName)
    \/ \E handle \in DOMAIN bridgeTimers : Expire(handle)
    \/ \E t \in Instants : Advance(t)

SpecChannels == InitChannels /\ [][NextChannels]_vars

\* Polling: a server constructed with enableDataPolling, its game client and
\* the add-on that tracks the key "k" with value "v" and score 7
KeyK == [name |-> <<107>>, value |-> <<118>>, score |-> 7]
Keys == {KeyK}

InitPoll ==
    /\ wsServer = FALSE
    /\ clientConn = NoConn
    /\ connClosed = {}
    /\ connCount = 0
    /\ commandBatches = EmptyMap
    /\ requestIdToBatchId = EmptyMap
    /\ calls = <<>>
    /\ sent = <<>>
    /\ answered = {}
    /\ redelivered = {}
    /\ input = NoInput
    /\ transfers = <<>>
    /\ executed = {}
    /\ incomingTransfers = EmptyMap
    /\ listeners = EmptyMap
    /\ bridgeTimers = EmptyMap
    /\ timerCount = 0
    /\ dispatched = <<>>
    /\ currentTick = 0
    /\ diagnostic = NoDiagnostic
    /\ enableDataPolling = TRUE
    /\ dataCallback = NoCallback
    /\ dataPollingTemp = {}
    /\ pollTimers = {}
    /\ loops = <<>>
    /\ delivered = <<>>
    /\ scoreboard = {}
    /\ now = 0

\* one client connects and stays; the game answers well within
\* #requestTimeoutMs, which lies beyond the instants observed
NextPoll ==
    \/ Start
    \/ connCount < MaxConns /\ OnOpen
    \/ \E i \in DOMAIN sent : Respond(i)
    \/ \E callback \in DataCallbacks : OnDataCallback(callback)
    \/ \E l \in DOMAIN loops : Wake(l)
    \/ \E timer \in pollTimers : Unsuppress(timer)
    \/ \E t \in PollInstants : Tick(t)
    \/ \E entry \in Keys : Track(entry)

SpecPoll == InitPoll /\ [][NextPoll]_vars

\* Reconnection: clients come and go while the server polls; nothing is
\* tracked for yb:data.  At first one client is connected, its greeting and
\* the first query of its loop are answered, and the loop sleeps.
InitReconnect ==
    /\ wsServer = TRUE
    /\ clientConn = 1
    /\ connClosed = {}
    /\ connCount = 1
    /\ LET S0 == [commandBatches |-> EmptyMap, requestIdToBatchId |-> EmptyMap,
                  calls |-> <<>>, sent |-> <<>>]
           S1 == RunCommandsOn(S0, "sendMessage", 1, <<TellrawCommand>>, 1, <<1>>,
                               EmptyMap)
           S2 == RunCommandsOn(S1, "dataPollingLoop", 1, <<PollQuery>>, 2, <<2>>,
                               EmptyMap)
           S3 == OnTextResponse(S2, 1, StatusMessageOf(TellrawCommand))
           S4 == OnTextResponse(S3, 2, Listing({}))
       IN /\ commandBatches = S4.commandBatches
          /\ requestIdToBatchId = S4.requestIdToBatchId
          /\ calls = S4.calls
          /\ sent = S4.sent
    /\ answered = {1, 2}
    /\ redelivered = {}
    /\ executed = {}
    /\ input = NoInput
    /\ transfers = <<>>
    /\ incomingTransfers = EmptyMap
    /\ listeners = EmptyMap
    /\ bridgeTimers = EmptyMap
    /\ timerCount = 0
    /\ dispatched = <<>>
    /\ currentTick = 0
    /\ diagnostic = NoDiagnostic
    /\ enableDataPolling = TRUE
    /\ dataCallback = NoCallback
    /\ dataPollingTemp = {}
    /\ pollTimers = {}
    /\ loops = <<[conn |-> 1, pc |-> "sleeping", call |-> 2,
                  due |-> POLL_INTERVAL_MS]>>
    /\ delivered = <<>>
    /\ scoreboard = {}
    /\ now = 0

NextReconnect ==
    \/ OnOpen
    \/ \E conn \in 1..(MaxConns + MaxReconnects) : SockClosed(conn) \/ OnClose(conn)
    \/ \E i \in DOMAIN sent : Respond(i)
    \/ \E k \in DOMAIN calls : Timeout(k)
    \/ \E l \in DOMAIN loops : Wake(l)
    \/ \E t \in PollInstants : t <= POLL_INTERVAL_MS /\ Tick(t)

SpecReconnect == InitReconnect /\ [][NextReconnect]_vars

-----------------------------------------------------------------------------
(* Properties of the data channel (SpecXfer) *)

\* sendData calls that passed the connection and name checks
Packetized == {k \in DOMAIN transfers : transfers[k].error \in {"none", "overhead"}}

RECURSIVE Consumed(_, _)
\* characters of the serialized string taken by the first k fragments
Consumed(t, k) == IF k = 0 THEN 0 ELSE Len(t.chunks[k]) + Consumed(t, k - 1)

\* remainingData when the packetizer looked for fragment number k (from 0)
Remaining(t, k) == SubSeq(t.dataString, Consumed(t, k) + 1, Len(t.dataString))

\* wrapped size of the DATA command carrying the first len characters of the
\* remaining string as fragment number k
WrappedBytes(t, k, len) ==
    CommandPayloadBytes(CommandPrefix(t.name, k, t.transferId)
                        \o SubSeq(Remaining(t, k), 1, len))

\* the searches the packetizer ran: one per fragment, one more where it failed
Searches(t) == 0..(Len(t.chunks) - (IF t.error = "overhead" THEN 0 ELSE 1))

\* the length search number k returned
Returned(t, k) == IF k < Len(t.chunks) THEN Len(t.chunks[k + 1]) ELSE 0

\* C1: for every payload sendData accepts, of every serialized length, the
\* packetizer splits the whole serialized string into fragments, and whatever
\* order the game runs the transfer's commands in, what the receiver hands to
\* the listener is reassembled into exactly that string and decodes to the
\* payload that was sent
C1RoundTrip ==
    /\ \A k \in Packetized :
          /\ transfers[k].error = "none"
          /\ Flatten(transfers[k].chunks, 1, Len(transfers[k].chunks))
                = transfers[k].dataString
    /\ \A d \in DOMAIN dispatched :
          \E k \in Packetized :
              /\ dispatched[d].name = transfers[k].name
              /\ dispatched[d].reassembledString = transfers[k].dataString
              /\ dispatched[d].data = transfers[k].data

\* C2: every fragment the packetizer produces, wrapped in its DATA command and
\* the command-request envelope, is at most 661 bytes long
C2FragmentsFit ==
    \A k \in Packetized :
        \A i \in 1..Len(transfers[k].chunks) :
            WrappedBytes(transfers[k], i - 1, Len(transfers[k].chunks[i]))
                <= WSS_MAXIMUM_BYTES

\* a transfer of several fragments, the first filling the budget to the byte
C2Witness ==
    \E k \in Packetized :
        /\ Len(transfers[k].chunks) >= 2
        /\ WrappedBytes(transfers[k], 0, Len(transfers[k].chunks[1])) = WSS_MAXIMUM_BYTES
        /\ \E i \in DOMAIN sent : sent[i].call = transfers[k].call /\ sent[i].index = 2

\* C3: every binary search of the packetizer returns the largest prefix length
\* of the remaining string that fits the budget once wrapped: the prefix it
\* returns fits, and it is the whole remainder or one more character would not
\* fit (so no fragment followed by a remainder can be extended)
C3Maximality ==
    \A k \in Packetized :
        \A n \in Searches(transfers[k]) :
            LET t == transfers[k]
                len == Returned(t, n)
            IN /\ len > 0 => WrappedBytes(t, n, len) <= WSS_MAXIMUM_BYTES
               /\ \/ len = Len(Remaining(t, n))
                  \/ WrappedBytes(t, n, len + 1) > WSS_MAXIMUM_BYTES

\* C4: the packetizer throws the overhead-too-large error exactly when the
\* remaining string is not empty and its one-character prefix, once wrapped,
\* exceeds the budget; a remaining string of length >= 1 whose first character
\* fits yields a fragment
C4OverheadErrorExact ==
    \A k \in Packetized :
        LET t == transfers[k]
            n == Len(t.chunks)
        IN (t.error = "overhead")
              <=> /\ Len(Remaining(t, n)) >= 1
                  /\ WrappedBytes(t, n, 1) > WSS_MAXIMUM_BYTES

\* the bytes left for payload characters in a DATA command of transfer t whose
\* fragment number is k
Usable(t, k) == WSS_MAXIMUM_BYTES - CommandPayloadBytes(CommandPrefix(t.name, k, t.transferId))

\* ceil(n / d)
CeilDiv(n, d) == (n + d - 1) \div d

\* C5: when every payload character takes one byte and every fragment has the
\* same envelope overhead h, an n-character string is split into
\* ceil(n / (B - h)) fragments, all of length B - h but the last, which carries
\* the remainder
C5FragmentLengths ==
    \A k \in Packetized :
        LET t == transfers[k]
            n == Len(t.dataString)
            u == Usable(t, 0)
            count == CeilDiv(n, u)
        IN (/\ \A i \in 1..n : CharBytes(t.dataString[i]) = 1
            /\ \A i \in 0..(count - 1) : Usable(t, i) = u)
           => /\ t.error = "none"
              /\ Len(t.chunks) = count
              /\ \A i \in 1..(count - 1) : Len(t.chunks[i]) = u
              /\ count > 0 => Len(t.chunks[count]) = n - (count - 1) * u

-----------------------------------------------------------------------------
(* Properties of the command channel (Spec) *)

\* the transmitted payloads of command i of call k whose response has arrived
AnsweredFor(k, i) == {j \in answered : sent[j].call = k /\ sent[j].index = i}

\* calls that runCommands accepted: a batch record was created for them
Accepted == {k \in DOMAIN calls : calls[k].batchId # NoId}

\* no two accepted calls drew the same batch id and no two commands the same
\* request id
IdsUnique ==
    /\ Cardinality(UsedBatchIds) = Cardinality(Accepted)
    /\ Cardinality(UsedRequestIds) = IdsDrawn(Len(calls))

\* C6: a batch has at most one terminal event: resolve and reject are called at
\* most once between them, and a resolved batch holds exactly as many results as
\* it has commands and its timer is cancelled
C6AtMostOneTerminalEvent ==
    \A k \in DOMAIN calls :
        /\ calls[k].resolved + calls[k].rejected <= 1
        /\ calls[k].resolved = 1
              => /\ Len(calls[k].results) = calls[k].commandCount
                 /\ ~calls[k].timeout
        /\ calls[k].timeout => calls[k].resolved + calls[k].rejected = 0

\* a batch of several commands that has resolved, beside one that timed out
C6Witness ==
    /\ \E k \in Accepted : calls[k].resolved = 1 /\ calls[k].commandCount >= 2
    /\ \E k \in Accepted : calls[k].rejected = 1

\* C7: a batch never resolves while one of its commands has had no response
C7NoPartialResolve ==
    \A k \in Accepted :
        calls[k].resolved > 0
           => \A i \in 1..calls[k].commandCount : AnsweredFor(k, i) # {}

\* C8: once every one of the N >= 0 commands of a batch that has not timed out
\* has had its response, the batch is resolved and its timer is cancelled (the
\* identifiers drawn being distinct)
C8ResolvedOnceAnswered ==
    \A k \in Accepted :
        (/\ IdsUnique
         /\ calls[k].rejected = 0
         /\ \A i \in 1..calls[k].commandCount : AnsweredFor(k, i) # {})
           => /\ calls[k].resolved = 1
              /\ ~calls[k].timeout

\* the status message the response to command i of call k carries
IssuedStatus(k, i) == StatusOrSuccess(StatusMessageOf(calls[k].commands[i]))

\* C9 as stated: element i of a resolved result list is the status message of
\* the response to the i-th issued command (the identifiers drawn being
\* distinct)
C9InputOrder ==
    \A k \in Accepted :
        (IdsUnique /\ calls[k].resolved > 0)
           => \A i \in 1..Len(calls[k].results) : calls[k].results[i] = IssuedStatus(k, i)

\* the response to transmitted request j is handled in this step
HandledNow(j) == j \in (answered' \ answered) \cup (redelivered' \ redelivered)

\* C9 amended: results are in arrival order; whenever the result list of a batch
\* changes, the status message of the response just received has been put at
\* its end
C9ArrivalOrder ==
    [][\A k \in DOMAIN calls :
          calls'[k].results # calls[k].results
             => \E j \in DOMAIN sent :
                   /\ HandledNow(j)
                   /\ calls'[k].results =
                       Append(calls[k].results,
                              StatusOrSuccess(StatusMessageOf(sent[j].commandLine)))]_vars

\* three commands answered in the order 2, 0, 1
C9Witness ==
    \E k \in Accepted :
        /\ calls[k].resolved = 1
        /\ calls[k].commandCount = 3
        /\ calls[k].results = <<IssuedStatus(k, 3), IssuedStatus(k, 1), IssuedStatus(k, 2)>>

\* the runCommand / runCommands calls a step makes
NewCalls == {k \in DOMAIN calls' : /\ k \notin DOMAIN calls
                                   /\ calls'[k].api \in {"runCommand", "runCommands"}}

\* C10: a runCommand / runCommands call made while the connection is absent or
\* closed is rejected in the same step, creates no batch record, adds no
\* requestId mapping, arms no timer and transmits nothing
C10RefusedWithoutEffect ==
    [][\A k \in NewCalls :
          ~ConnUsable(clientConn)
             => /\ calls'[k].rejected = 1
                /\ calls'[k].resolved = 0
                /\ ~calls'[k].timeout
                /\ commandBatches' = commandBatches
                /\ requestIdToBatchId' = requestIdToBatchId
                /\ sent' = sent
                /\ \A j \in DOMAIN calls' : calls'[j].timeout => j \in DOMAIN calls]_vars

\* a call of several commands refused on a connection that has closed but is
\* still the current one
C10Witness ==
    \E k \in DOMAIN calls :
        /\ calls[k].api = "runCommands"
        /\ calls[k].commandCount >= 2
        /\ calls[k].batchId = NoId
        /\ calls[k].rejected = 1
        /\ clientConn # NoConn
        /\ clientConn \in connClosed

\* C11: a call with a command whose wrapped envelope exceeds the budget is
\* rejected at once, without waiting for the batch timer, and the command is
\* not transmitted
C11OversizedRejectedLocally ==
    /\ \A j \in DOMAIN sent : CommandPayloadBytes(sent[j].commandLine) <= WSS_MAXIMUM_BYTES
    /\ \A k \in Accepted :
          TooLong(calls[k].commands) # {}
             => /\ calls[k].rejected = 1
                /\ ~calls[k].timeout

\* the batch timer of call k fires in this step
TimerFires(k) == calls[k].timeout /\ ~calls'[k].timeout /\ calls'[k].rejected = calls[k].rejected + 1

\* the response to a request of call k is handled in this step
ResponseFor(k) == \E j \in answered' \ answered : sent[j].call = k

\* C12: when the timer of a batch fires the batch is rejected, its record leaves
\* the batch map and none of its request ids stays mapped; a response that
\* arrives later for one of its requests changes no batch
C12TimeoutPurges ==
    [][\A k \in DOMAIN calls :
          /\ TimerFires(k)
                => /\ calls'[k].rejected = 1
                   /\ calls'[k].resolved = 0
                   /\ \A b \in DOMAIN commandBatches' : commandBatches'[b] # k
                   /\ \A i \in DOMAIN calls[k].requestIds :
                         ~MapHas(requestIdToBatchId', calls[k].requestIds[i])
          /\ (k \in Accepted /\ calls[k].rejected >= 1 /\ ResponseFor(k))
                => calls' = calls]_vars

\* C13: a response that is consumed deletes its requestId mapping, and a
\* commandResponse that arrives a second time for the same request appends
\* nothing to any batch and completes none
C13AtMostOnce ==
    [][/\ \A j \in DOMAIN sent :
             (HandledNow(j) /\ calls' # calls)
                => ~MapHas(requestIdToBatchId', sent[j].requestId)
       /\ redelivered' # redelivered => calls' = calls]_vars

\* batches that are pending: created, neither resolved nor timed out
Pending == {k \in Accepted : calls[k].timeout}

\* C14: the request ids of the requests of all pending batches are pairwise
\* distinct, within a batch and across batches, and so are the batch ids of the
\* pending batches
C14IdsUnique ==
    /\ \A k1, k2 \in Pending :
          \A i1 \in DOMAIN calls[k1].requestIds, i2 \in DOMAIN calls[k2].requestIds :
              <<k1, i1>> # <<k2, i2>> => calls[k1].requestIds[i1] # calls[k2].requestIds[i2]
    /\ \A k1, k2 \in Pending : k1 # k2 => calls[k1].batchId # calls[k2].batchId

-----------------------------------------------------------------------------
(* Properties of the receiving side (SpecBridge) *)

\* receivedChunks.size of a transfer record
ReceivedCount(transfer) == Cardinality(DOMAIN transfer.receivedChunks)

\* C15: every tracked transfer has received at most totalChunks chunks
C15ReceivedWithinTotal ==
    \A transferId \in DOMAIN incomingTransfers :
        ReceivedCount(incomingTransfers[transferId])
            <= incomingTransfers[transferId].totalChunks

\* the listener invocation this step adds to the log
Invoked == dispatched'[Len(dispatched')]

\* this step is handleScriptEvent processing END for transferId
EndProcessed(transferId) ==
    InstallBridge(HandleScriptEvent(Bridge, EventIdN, EndMessage(transferId)))

\* C16: a listener is invoked only by the processing of END for a tracked
\* transfer whose received indices are exactly 0..totalChunks-1
C16DispatchOnlyIfExact ==
    [][Len(dispatched') > Len(dispatched)
          => /\ MapHas(incomingTransfers, Invoked.transferId)
             /\ EndProcessed(Invoked.transferId)
             /\ LET transfer == incomingTransfers[Invoked.transferId]
                IN /\ ReceivedCount(transfer) = transfer.totalChunks
                   /\ DOMAIN transfer.receivedChunks = 0..(transfer.totalChunks - 1)]_vars

\* a transfer of two chunks has been handed to the listener
C16Witness ==
    \E d \in DOMAIN dispatched :
        /\ \E first, second \in ChunkTexts :
              dispatched[d].reassembledString = first \o second
        /\ dispatched[d].name = ShortName

\* this step is handleScriptEvent processing START with the given total text
StartProcessed(total, transferId) ==
    InstallBridge(HandleScriptEvent(Bridge, EventIdN, StartMessage(total, transferId)))

\* total texts that do not denote a positive integer
InvalidTotals == {total \in TotalTexts : ParseInt(total).nan \/ ParseInt(total).value <= 0}

\* C17: START with an unparsable, zero or negative totalChunks creates no
\* transfer record and arms no timer, and no listener is ever invoked for a
\* transfer begun that way
C17InvalidStartRejected ==
    [][/\ \A total \in InvalidTotals :
             StartProcessed(total, TransferA)
                => /\ incomingTransfers' = incomingTransfers
                   /\ bridgeTimers' = bridgeTimers
                   /\ timerCount' = timerCount
       /\ Len(dispatched') > Len(dispatched)
             => incomingTransfers[Invoked.transferId].totalChunks > 0]_vars

\* some index of 0..totalChunks-1 has not been received
LacksIndex(transfer) ==
    \E i \in 0..(transfer.totalChunks - 1) : ~MapHas(transfer.receivedChunks, i)

\* the transfer of the gap example: four chunks announced, 0, 1 and 3 received
IsGapExample(transfer) ==
    /\ transfer.totalChunks = 4
    /\ DOMAIN transfer.receivedChunks = {0, 1, 3}

\* C18: END for a transfer lacking an index of 0..totalChunks-1 invokes no
\* listener and removes the transfer; for four chunks of which 0, 1 and 3
\* were received it ends with the missing-chunk error
C18GapMissingFragment ==
    [][\A transferId \in DOMAIN incomingTransfers :
          (EndProcessed(transferId) /\ LacksIndex(incomingTransfers[transferId]))
             => /\ dispatched' = dispatched
                /\ ~MapHas(incomingTransfers', transferId)
                /\ IsGapExample(incomingTransfers[transferId])
                      => diagnostic'.kind = "missingChunk"]_vars

\* C18 (amended): END for a transfer lacking an index of 0..totalChunks-1
\* invokes no listener, removes the transfer and clears its timer; it ends
\* with the incomplete-transfer warning when the received count differs from
\* totalChunks, as for four chunks of which 0, 1 and 3 were received, and with
\* the missing-chunk error only when the count equals totalChunks
C18GapDiscarded ==
    [][\A transferId \in DOMAIN incomingTransfers :
          LET transfer == incomingTransfers[transferId]
          IN (EndProcessed(transferId) /\ LacksIndex(transfer))
                => /\ dispatched' = dispatched
                   /\ ~MapHas(incomingTransfers', transferId)
                   /\ ~MapHas(bridgeTimers', transfer.timeout)
                   /\ IsGapExample(transfer) => diagnostic'.kind = "incomplete"
                   /\ ReceivedCount(transfer) # transfer.totalChunks
                         => diagnostic' = [kind |-> "incomplete",
                                           transferId |-> transferId,
                                           expected |-> transfer.totalChunks,
                                           received |-> ReceivedCount(transfer)]
                   /\ ReceivedCount(transfer) = transfer.totalChunks
                         => diagnostic'.kind = "missingChunk"]_vars

\* END has discarded a transfer of four chunks that had received three
C18Witness ==
    /\ diagnostic = [kind |-> "incomplete", transferId |-> TransferA,
                     expected |-> 4, received |-> 3]
    /\ ~MapHas(incomingTransfers, TransferA)
    /\ dispatched = <<>>

\* this step is handleScriptEvent processing DATA with the given index text
DataProcessed(index, transferId, chunk) ==
    InstallBridge(HandleScriptEvent(Bridge, EventIdN, DataMessage(index, transferId, chunk)))

\* the chunks of a transfer joined in index order
Joined(transfer) ==
    Flatten([i \in 1..transfer.totalChunks |-> transfer.receivedChunks[i - 1]],
            1, transfer.totalChunks)

\* C19: DATA for a tracked transfer stores the chunk at its index and leaves
\* the other indices alone; for an index already stored the received count
\* does not change; END for a transfer holding totalChunks chunks, exactly
\* those of 0..totalChunks-1, invokes the listener with the values stored
\* last, joined in index order
C19LastWriteWins ==
    [][\A transferId \in DOMAIN incomingTransfers :
          LET transfer == incomingTransfers[transferId]
              chunks == transfer.receivedChunks
          IN /\ \A index \in IndexTexts : \A chunk \in ChunksAt(index) :
                   DataProcessed(index, transferId, chunk)
                      => LET i == ParseInt(index).value
                             chunksAfter == incomingTransfers'[transferId].receivedChunks
                         IN /\ chunksAfter[i] = chunk
                            /\ DOMAIN chunksAfter = DOMAIN chunks \cup {i}
                            /\ \A j \in DOMAIN chunks \ {i} : chunksAfter[j] = chunks[j]
                            /\ MapHas(chunks, i)
                                  => ReceivedCount(incomingTransfers'[transferId])
                                        = ReceivedCount(transfer)
             /\ (/\ EndProcessed(transferId)
                 /\ ReceivedCount(transfer) = transfer.totalChunks
                 /\ DOMAIN chunks = 0..(transfer.totalChunks - 1))
                   => /\ Len(dispatched') = Len(dispatched) + 1
                      /\ Invoked.reassembledString = Joined(transfer)]_vars

\* the listener has received a transfer in which chunk 0 was sent twice, the
\* second time with another value
C19Witness ==
    \E d \in DOMAIN dispatched :
        /\ 0 \in dispatched[d].rewritten
        /\ \E chunk \in ChunkTexts :
              dispatched[d].reassembledString = <<113>> \o chunk

\* every tracked transfer is at most TIMEOUT_TICKS old and has its own timer
\* armed, due TIMEOUT_TICKS after its START, and every armed timer belongs to
\* a tracked transfer
TimersMatchTransfers ==
    /\ \A transferId \in DOMAIN incomingTransfers :
          LET transfer == incomingTransfers[transferId]
          IN /\ MapHas(bridgeTimers, transfer.timeout)
             /\ bridgeTimers[transfer.timeout].transferId = transferId
             /\ bridgeTimers[transfer.timeout].due = transfer.startTime + TIMEOUT_TICKS
             /\ currentTick <= transfer.startTime + TIMEOUT_TICKS
    /\ \A handle \in DOMAIN bridgeTimers :
          /\ MapHas(incomingTransfers, bridgeTimers[handle].transferId)
          /\ incomingTransfers[bridgeTimers[handle].transferId].timeout = handle

\* C20: a transfer whose END has not been processed is tracked for at most
\* TIMEOUT_TICKS after its START; its timer, firing at that tick, removes the
\* record and invokes no listener; DATA and END for an id that is not tracked
\* change nothing
C20Expiry ==
    [][/\ TimersMatchTransfers'
       /\ \A handle \in DOMAIN bridgeTimers :
             Expire(handle)
                => LET transferId == bridgeTimers[handle].transferId
                   IN /\ currentTick = incomingTransfers[transferId].startTime + TIMEOUT_TICKS
                      /\ ~MapHas(incomingTransfers', transferId)
                      /\ dispatched' = dispatched
                      /\ bridgeTimers' = MapDelete(bridgeTimers, handle)
       /\ ~MapHas(incomingTransfers, TransferA)
             => /\ EndProcessed(TransferA) => UNCHANGED bridgeVars
                /\ \A index \in IndexTexts : \A chunk \in ChunksAt(index) :
                      DataProcessed(index, TransferA, chunk) => UNCHANGED bridgeVars]_vars

\* the timer of a transfer has fired TIMEOUT_TICKS after its START, and the
\* transfer is gone without a listener invocation
C20Witness ==
    /\ diagnostic = [kind |-> "timeout", transferId |-> TransferA, name |-> ShortName]
    /\ currentTick = TIMEOUT_TICKS
    /\ ~MapHas(incomingTransfers, TransferA)
    /\ dispatched = <<>>

\* JSON.parse of the reassembled string, the string itself when it does not parse
Decoded(string) ==
    IF JsonParse(string).ok THEN JsonParse(string).value
    ELSE [type |-> "string", chars |-> string]

\* the transfer holds totalChunks chunks, those of 0..totalChunks-1
AllReceived(transfer) ==
    /\ ReceivedCount(transfer) = transfer.totalChunks
    /\ DOMAIN transfer.receivedChunks = 0..(transfer.totalChunks - 1)

C22IncompleteDiscarded ==
    [][/\ \A transferId \in DOMAIN incomingTransfers :
             LET transfer == incomingTransfers[transferId]
             IN (/\ EndProcessed(transferId)
                 /\ ReceivedCount(transfer) # transfer.totalChunks)
                   => /\ ~MapHas(bridgeTimers', transfer.timeout)
                      /\ incomingTransfers' = MapDelete(incomingTransfers, transferId)
                      /\ dispatched' = dispatched
                      /\ diagnostic'.kind = "incomplete"
       /\ (~MapHas(incomingTransfers, TransferA) /\ EndProcessed(TransferA))
             => UNCHANGED bridgeVars]_vars

\* END has discarded a transfer of two chunks that had received one
C22Witness ==
    /\ diagnostic = [kind |-> "incomplete", transferId |-> TransferA,
                     expected |-> 2, received |-> 1]
    /\ incomingTransfers = EmptyMap
    /\ bridgeTimers = EmptyMap
    /\ dispatched = <<>>

-----------------------------------------------------------------------------
(* Properties of sendData as its caller sees it (SpecSend) *)

\* the transmitted commands of a sendData invocation that are not answered yet
Outstanding(transfer) ==
    {i \in DOMAIN sent : sent[i].call = transfer.call /\ i \notin answered}

\* C25: at most one command of a transfer is outstanding at any time
C25OneOutstanding ==
    \A k \in DOMAIN transfers : Cardinality(Outstanding(transfers[k])) <= 1

\* C26: when the commands of a transfer are rejected, sendData is rejected to
\* its caller, and sendData reports success only for a transfer all of whose
\* commands have been answered
C26FailurePropagates ==
    \A k \in DOMAIN transfers :
        transfers[k].call # 0
           => /\ calls[transfers[k].call].rejected > 0
                    => SendDataOutcome(transfers[k]) = "rejected"
              /\ SendDataOutcome(transfers[k]) = "resolved"
                    => Outstanding(transfers[k]) = {}

-----------------------------------------------------------------------------
(* Properties of the receiving side with its registry (SpecChannels) *)

\* this step is handleScriptEvent processing the event (id, message)
Handled(id, message) == InstallBridge(HandleScriptEvent(Bridge, id, message))

\* the event ids and the totals of the START messages fed to the bridge
EventIds == {EventIdN, EventIdM}
ValidTotals == {<<49>>, <<50>>}

\* C27: START for a tracked id cancels the timer of the old record and stores
\* a record with no chunks, the new total and the new channel name, whose own
\* timer is due TIMEOUT_TICKS later; a timer that fires removes only the
\* record that holds its handle, TIMEOUT_TICKS after that record's START
C27Supersede ==
    [][/\ \A id \in EventIds, total \in ValidTotals :
             (/\ MapHas(incomingTransfers, TransferA)
              /\ Handled(id, StartMessage(total, TransferA)))
                => LET old == incomingTransfers[TransferA]
                       new == incomingTransfers'[TransferA]
                   IN /\ ~MapHas(bridgeTimers', old.timeout)
                      /\ new.timeout # old.timeout
                      /\ new.receivedChunks = EmptyMap
                      /\ new.totalChunks = ParseInt(total).value
                      /\ new.name = SubSeq(id, 4, Len(id))
                      /\ new.startTime = currentTick
                      /\ MapHas(bridgeTimers', new.timeout)
                      /\ bridgeTimers'[new.timeout].due = currentTick + TIMEOUT_TICKS
       /\ \A handle \in DOMAIN bridgeTimers :
             Expire(handle)
                => LET transferId == bridgeTimers[handle].transferId
                   IN /\ MapHas(incomingTransfers, transferId)
                      /\ incomingTransfers[transferId].timeout = handle
                      /\ currentTick = incomingTransfers[transferId].startTime
                                          + TIMEOUT_TICKS]_vars

\* the second START accepted has replaced the record of transfer "a" at tick
\* TIMEOUT_TICKS: the first record was neither discarded, dispatched nor
\* expired, which would each have left a diagnostic or a listener invocation
C27Witness ==
    /\ timerCount = MaxStarts + MaxRestarts
    /\ DOMAIN incomingTransfers = {TransferA}
    /\ incomingTransfers[TransferA].timeout = timerCount
    /\ incomingTransfers[TransferA].startTime = TIMEOUT_TICKS
    /\ incomingTransfers[TransferA].name = OtherName
    /\ DOMAIN bridgeTimers = {timerCount}
    /\ listeners = OnData(OnData(EmptyMap, ShortName, 1), OtherName, 2)
    /\ diagnostic = NoDiagnostic
    /\ dispatched = <<>>

\* C28: when the listener called for a completed transfer throws, the transfer
\* is removed and its timer cancelled as after a normal dispatch, the other
\* transfers, the other timers and the registry are untouched, and the failure
\* is logged; when the joined string is not JSON, the transfer is removed and
\* the listener receives the string itself
C28ListenerThrowContained ==
    [][/\ \A id \in EventIds :
          (/\ MapHas(incomingTransfers, TransferA)
           /\ Handled(id, EndMessage(TransferA))
           /\ AllReceived(incomingTransfers[TransferA])
           /\ MapHas(listeners, incomingTransfers[TransferA].name)
           /\ listeners[incomingTransfers[TransferA].name] \in ThrowingCallbacks)
             => /\ incomingTransfers' = MapDelete(incomingTransfers, TransferA)
                /\ bridgeTimers' = MapDelete(bridgeTimers, incomingTransfers[TransferA].timeout)
                /\ listeners' = listeners
                /\ timerCount' = timerCount
                /\ Len(dispatched') = Len(dispatched) + 1
                /\ Invoked.threw
                /\ diagnostic' = [kind |-> "dispatchFailed",
                                  name |-> incomingTransfers[TransferA].name]
       /\ \A id \in EventIds :
          (/\ MapHas(incomingTransfers, TransferA)
           /\ Handled(id, EndMessage(TransferA))
           /\ AllReceived(incomingTransfers[TransferA])
           /\ MapHas(listeners, incomingTransfers[TransferA].name)
           /\ ~JsonParse(Joined(incomingTransfers[TransferA])).ok)
             => /\ incomingTransfers' = MapDelete(incomingTransfers, TransferA)
                /\ bridgeTimers' = MapDelete(bridgeTimers, incomingTransfers[TransferA].timeout)
                /\ Len(dispatched') = Len(dispatched) + 1
                /\ Invoked.data = [type |-> "string",
                                   chars |-> Joined(incomingTransfers[TransferA])]]_vars

\* the listener of transfer "a" has thrown while transfer "b" is tracked
C28Witness ==
    /\ \E d \in DOMAIN dispatched : dispatched[d].threw /\ dispatched[d].transferId = TransferA
    /\ diagnostic.kind = "dispatchFailed"
    /\ DOMAIN incomingTransfers = {TransferB}
    /\ MapHas(bridgeTimers, incomingTransfers[TransferB].timeout)

\* C29: onData(name, callback) makes callback the one listener of name and
\* offData(name) leaves name without one, nothing else changes the registry;
\* DATA never changes the channel name of a transfer; END for a complete
\* transfer, on whatever channel the END event itself arrives, invokes the
\* listener now registered for the channel name of its START, and no other;
\* with none registered it removes the transfer and invokes nothing
C29SingleCurrentListener ==
    [][/\ \A registration \in Registrations :
             OnDataCall(registration[1], registration[2])
                => /\ listeners'[registration[1]] = registration[2]
                   /\ \A name \in DOMAIN listeners \ {registration[1]} :
                         listeners'[name] = listeners[name]
       /\ OffDataCall(ShortName)
             => /\ ~MapHas(listeners', ShortName)
                /\ \A name \in DOMAIN listeners \ {ShortName} :
                      listeners'[name] = listeners[name]
       /\ listeners' # listeners
             => \/ \E registration \in Registrations :
                      OnDataCall(registration[1], registration[2])
                \/ OffDataCall(ShortName)
       /\ \A id \in EventIds :
             (/\ MapHas(incomingTransfers, TransferA)
              /\ Handled(id, DataMessage(<<48>>, TransferA, <<112>>)))
                => incomingTransfers'[TransferA].name = incomingTransfers[TransferA].name
       /\ \A id \in EventIds :
             (/\ MapHas(incomingTransfers, TransferA)
              /\ Handled(id, EndMessage(TransferA))
              /\ AllReceived(incomingTransfers[TransferA]))
                => LET name == incomingTransfers[TransferA].name
                   IN /\ ~MapHas(incomingTransfers', TransferA)
                      /\ ~MapHas(bridgeTimers', incomingTransfers[TransferA].timeout)
                      /\ IF MapHas(listeners, name)
                         THEN /\ Len(dispatched') = Len(dispatched) + 1
                              /\ Invoked.name = name
                              /\ Invoked.listener = listeners[name]
                         ELSE dispatched' = dispatched]_vars

\* a transfer begun on channel "n" has been handed to callback 3, registered
\* for "n" in place of callback 1, and one begun while "n" had no listener is
\* gone without an invocation
C29Witness ==
    /\ Len(dispatched) = 1
    /\ dispatched[1].name = ShortName
    /\ dispatched[1].listener \in ThrowingCallbacks
    /\ timerCount = MaxStarts + MaxRestarts
    /\ incomingTransfers = EmptyMap
    /\ ~MapHas(listeners, ShortName)
    /\ currentTick = 0
    /\ diagnostic.kind = "dispatchFailed"

\* DATA and END messages that name a transfer
ReferringMessages ==
    {DataMessage(<<48>>, transferId, <<112>>) : transferId \in {TransferA, TransferB}}
        \cup {EndMessage(transferId) : transferId \in {TransferA, TransferB}}

\* the transfer id a DATA or END message carries
ReferredId(message) ==
    IF Part(message, 0) = DataType THEN Part(message, 2) ELSE Part(message, 1)

\* handleScriptEvent leaves the records with their fragments, the timers,
\* the registry and the listener invocations as they are
Ignored(id, message) ==
    LET after == HandleScriptEvent(Bridge, id, message)
    IN /\ after.incomingTransfers = incomingTransfers
       /\ after.bridgeTimers = bridgeTimers
       /\ after.timerCount = timerCount
       /\ after.listeners = listeners
       /\ after.dispatched = dispatched

\* C30: whatever the bridge holds, handling a malformed message, or a DATA or
\* END that names a transfer the bridge does not track, changes no transfer
\* record, no stored fragment, no timer and no registration, and calls no
\* listener
C30MalformedIgnored ==
    \A id \in EventIds :
        /\ \A message \in MalformedMessages : Ignored(id, message)
        /\ \A message \in ReferringMessages :
              ~MapHas(incomingTransfers, ReferredId(message)) => Ignored(id, message)

\* an unparsable DATA was handled while "b" was untracked and "a" was tracked
\* with its fragment, its timer armed and a listener registered
C30Witness ==
    /\ diagnostic.kind = "invalidData"
    /\ MapHas(incomingTransfers, TransferA)
    /\ ~MapHas(incomingTransfers, TransferB)
    /\ DOMAIN incomingTransfers[TransferA].receivedChunks = {0}
    /\ MapHas(bridgeTimers, incomingTransfers[TransferA].timeout)
    /\ MapHas(listeners, ShortName)

-----------------------------------------------------------------------------
(* Properties of data polling (SpecPoll) *)

\* the invocation of #dataCallback this step made
Delivery == delivered'[Len(delivered')]

\* poll queries answered with a listing of board
AnsweredWith(board) ==
    {k \in DOMAIN calls : /\ calls[k].api = "dataPollingLoop"
                          /\ calls[k].resolved > 0
                          /\ calls[k].results[1] = Listing(board)}

\* C23: a step hands a listed key to the data callback only if its name is
\* not suppressed; the same step transmits the removal command for that name,
\* suppresses the name and arms a timer due SUPPRESS_MS later; a name stays
\* suppressed for SUPPRESS_MS after its dispatch, so two dispatches of one
\* name lie at least SUPPRESS_MS apart
C23PollingDedup ==
    /\ [][delivered' # delivered
            => /\ Len(delivered') = Len(delivered) + 1
               /\ SubSeq(delivered', 1, Len(delivered)) = delivered
               /\ Delivery.name \notin dataPollingTemp
               /\ Delivery.name \in dataPollingTemp'
               /\ [name |-> Delivery.name, due |-> now + SUPPRESS_MS] \in pollTimers'
               /\ \E i \in DOMAIN sent' \ DOMAIN sent :
                     sent'[i].commandLine = RemoveCommand(Delivery.name)]_vars
    /\ [](\A i \in DOMAIN delivered :
             /\ now < delivered[i].at + SUPPRESS_MS
                   => delivered[i].name \in dataPollingTemp
             /\ \A j \in DOMAIN delivered :
                   (i < j /\ delivered[i].name = delivered[j].name)
                      => delivered[j].at >= delivered[i].at + SUPPRESS_MS)

\* two consecutive poll responses listed the key "k" within its suppression
\* window: it was dispatched once
C23Witness ==
    /\ Cardinality(AnsweredWith({KeyK})) = 2
    /\ Len(delivered) = 1
    /\ delivered[1].name = KeyK.name
    /\ now < delivered[1].at + SUPPRESS_MS
    /\ \A l \in DOMAIN loops : loops[l].pc = "sleeping"

\* the names for which a removal command has been issued
RemovalsIssued ==
    {name \in {entry.name : entry \in Keys} :
        \E k \in DOMAIN calls : calls[k].commands = <<RemoveCommand(name)>>}

\* C39: a removal command is issued for a key, and the key is suppressed, only
\* once the entry has been handed to a registered data callback
C39RemovalAfterDelivery ==
    \A name \in RemovalsIssued \cup dataPollingTemp :
        \E i \in DOMAIN delivered :
            delivered[i].name = name /\ delivered[i].callback # NoCallback

-----------------------------------------------------------------------------
(* Properties of the polling loops across connections (SpecReconnect) *)

\* loop l tests its while condition in this step
Tested(l) == loops[l].pc = "sleeping" /\ loops'[l].pc # "sleeping"

\* C24: a loop that tests its condition once the connection it was started
\* for has closed stops, whatever connection the server holds by then
C24LoopEndsWithItsConnection ==
    [][\A l \in DOMAIN loops :
          (Tested(l) /\ loops[l].conn \in connClosed) => loops'[l].pc = "stopped"]_vars

\* loop l is active: it has not ended and its last query went out on the
\* connection the server holds now
Active(l) ==
    /\ loops[l].pc # "stopped"
    /\ \E i \in DOMAIN sent : sent[i].call = loops[l].call /\ sent[i].conn = clientConn

\* C38: at most one polling loop is active at any time: a loop started for an
\* earlier connection never polls on a later connection beside that
\* connection's own loop
C38OneActiveLoop ==
    \A l1, l2 \in DOMAIN loops : (Active(l1) /\ Active(l2)) => l1 = l2

-----------------------------------------------------------------------------
(* Further properties of the receiving side (SpecChannels) *)

\* C31: the handle stored in each tracked record is armed and fires for that
\* record's id, every armed timer is the one stored in the record of its id,
\* so there are as many armed timers as records; a step that removes or
\* replaces a record leaves the handle that record held unarmed
C31TimersOneToOne ==
    /\ [](/\ \A transferId \in DOMAIN incomingTransfers :
                /\ MapHas(bridgeTimers, incomingTransfers[transferId].timeout)
                /\ bridgeTimers[incomingTransfers[transferId].timeout].transferId
                      = transferId
          /\ \A handle \in DOMAIN bridgeTimers :
                /\ MapHas(incomingTransfers, bridgeTimers[handle].transferId)
                /\ incomingTransfers[bridgeTimers[handle].transferId].timeout = handle
          /\ Cardinality(DOMAIN bridgeTimers) = Cardinality(DOMAIN incomingTransfers))
    /\ [][\A transferId \in DOMAIN incomingTransfers :
             (\/ ~MapHas(incomingTransfers', transferId)
              \/ incomingTransfers'[transferId].timeout
                    # incomingTransfers[transferId].timeout)
                => ~MapHas(bridgeTimers', incomingTransfers[transferId].timeout)]_vars

\* "a" was discarded at its END while "b" is tracked: the only armed timer
\* is the one of "b"
C31Witness ==
    /\ diagnostic.kind = "incomplete"
    /\ diagnostic.transferId = TransferA
    /\ DOMAIN incomingTransfers = {TransferB}
    /\ DOMAIN bridgeTimers = {incomingTransfers[TransferB].timeout}
    /\ timerCount = MaxStarts + MaxRestarts

\* the transfer ids in use
TransferIds == {TransferA, TransferB}

\* the bridge tracking transferId only
Alone(B, transferId) ==
    [B EXCEPT !.incomingTransfers =
                  [x \in DOMAIN B.incomingTransfers \cap {transferId} |->
                      B.incomingTransfers[x]],
              !.bridgeTimers =
                  [handle \in {h \in DOMAIN B.bridgeTimers :
                                  B.bridgeTimers[h].transferId = transferId} |->
                      B.bridgeTimers[handle]]]

\* what the bridge B holds of transferId: its record and its armed timers
Held(B, transferId) == Alone(B, transferId).incomingTransfers
HeldTimers(B, transferId) == Alone(B, transferId).bridgeTimers

\* the transfer id a START, DATA or END message carries
CarriedId(message) ==
    IF Part(message, 0) = EndType THEN Part(message, 1) ELSE Part(message, 2)

\* the step from the bridge to after concerns transferId only: what is held
\* of the other ids is as before, and the record, the timers, the listener
\* invocations and the diagnostic are those of the same step taken by a
\* bridge that tracks transferId alone
Local(after, alone, transferId) ==
    /\ \A other \in TransferIds \ {transferId} :
          /\ Held(after, other) = Held(Bridge, other)
          /\ HeldTimers(after, other) = HeldTimers(Bridge, other)
    /\ Held(after, transferId) = Held(alone, transferId)
    /\ HeldTimers(after, transferId) = HeldTimers(alone, transferId)
    /\ after.dispatched = alone.dispatched
    /\ after.diagnostic = alone.diagnostic

\* C32: whatever else the bridge tracks, handling a START, DATA or END of one
\* transfer, and the expiry of one transfer, gives that transfer the outcome
\* it has on a bridge tracking it alone and leaves every other transfer as it
\* is; so the outcome of a transfer does not depend on how the messages of
\* another id are interleaved with its own
C32TransfersIndependent ==
    /\ \A id \in EventIds, message \in ChannelMessages \cup ReferringMessages :
          Local(HandleScriptEvent(Bridge, id, message),
                HandleScriptEvent(Alone(Bridge, CarriedId(message)), id, message),
                CarriedId(message))
    /\ \A handle \in DOMAIN bridgeTimers :
          Local(TimeoutCallback(Bridge, handle),
                TimeoutCallback(Alone(Bridge, bridgeTimers[handle].transferId), handle),
                bridgeTimers[handle].transferId)

\* "a" was dispatched with its payload while "b", started before it, is
\* still tracked with its timer armed
C32Witness ==
    /\ Len(dispatched) = 1
    /\ dispatched[1].transferId = TransferA
    /\ dispatched[1].reassembledString = <<112>>
    /\ DOMAIN incomingTransfers = {TransferB}
    /\ incomingTransfers[TransferB].timeout = 1
    /\ MapHas(bridgeTimers, 1)

-----------------------------------------------------------------------------
(* Further properties of sendData (SpecSend) *)

\* the characters a channel name may consist of: A-Z, a-z, 0-9, "_" and "-"
NameCharacters == (65..90) \cup (97..122) \cup (48..57) \cup {95, 45}

\* the sendData invocation made in this step
Invocation == transfers'[Len(transfers')]

\* commands of the transfer protocol among the transmitted ones
ProtocolCommands == {i \in DOMAIN sent : IsScriptEvent(sent[i].commandLine)}

\* C33: a sendData call made while the connection is absent or closed, or
\* with a name that is empty, holds a character outside NameCharacters or is
\* longer than MaxNameLength, or whose packetizer reports the overhead error,
\* throws in the step of the call, which transmits nothing and registers
\* no batch; no command of the protocol, so no START, is ever transmitted for
\* it
C33FailsBeforeTransmission ==
    /\ [][transfers' # transfers
            => ((\/ ~ConnUsable(clientConn)
                 \/ Invocation.name = <<>>
                 \/ \E i \in DOMAIN Invocation.name :
                       Invocation.name[i] \notin NameCharacters
                 \/ Len(Invocation.name) > MaxNameLength
                 \/ Invocation.error = "overhead")
                  => /\ Invocation.error # "none"
                     /\ Invocation.call = 0
                     /\ UNCHANGED batchVars)]_vars
    /\ [](\A k \in DOMAIN transfers :
             transfers[k].error # "none"
                => /\ ProtocolCommands = {}
                   /\ \A c \in DOMAIN calls : calls[c].api # "sendData")

\* sendData was refused because the connection had closed
C33Witness ==
    /\ Len(transfers) = 1
    /\ transfers[1].error = "connection"
    /\ connClosed = {1}
    /\ clientConn = NoConn
    /\ ProtocolCommands = {}

-----------------------------------------------------------------------------
(* Further properties of the packetizer (SpecXfer) *)

\* C34: every fragment the packetizer produced is a non-empty prefix of what
\* remained, so the remainder shrank with every iteration and there are at
\* most as many fragments as characters; the loop ended with nothing left or
\* by throwing with something left; it produced no fragment without
\* throwing only for an empty serialized string
C34PacketizerTerminates ==
    \A k \in Packetized :
        LET t == transfers[k]
            n == Len(t.chunks)
        IN /\ \A i \in 1..n :
                 /\ Len(t.chunks[i]) >= 1
                 /\ t.chunks[i] = SubSeq(Remaining(t, i - 1), 1, Len(t.chunks[i]))
                 /\ Len(Remaining(t, i)) < Len(Remaining(t, i - 1))
           /\ n <= Len(t.dataString)
           /\ t.error = "none" => Remaining(t, n) = <<>>
           /\ t.error = "overhead" => Remaining(t, n) # <<>>
           /\ (t.error = "none" /\ n = 0) => t.dataString = <<>>

\* a transfer packetized into several fragments, the last one shorter than
\* the first, with nothing left
C34Witness ==
    \E k \in Packetized :
        /\ transfers[k].error = "none"
        /\ Len(transfers[k].chunks) >= 2
        /\ Len(transfers[k].chunks[Len(transfers[k].chunks)])
              < Len(transfers[k].chunks[1])
        /\ Consumed(transfers[k], Len(transfers[k].chunks)) = Len(transfers[k].dataString)

-----------------------------------------------------------------------------
(* Isolation of concurrently pending batches (Spec) *)

\* the batch record the batch map holds for call k, if any
RecordOf(k) == {b \in DOMAIN commandBatches : commandBatches[b] = k}

\* the request ids the request map leads to call k for
MappedTo(k) ==
    {r \in DOMAIN requestIdToBatchId :
        /\ MapHas(commandBatches, requestIdToBatchId[r])
        /\ commandBatches[requestIdToBatchId[r]] = k}

\* C37: the result list of a batch changes only when a response to one of
\* its own requests is handled, and the timer of a batch removes the record and
\* the request mappings of no other batch
C37BatchIsolation ==
    [][\A k \in DOMAIN calls :
          /\ calls'[k].results # calls[k].results
                => \E j \in DOMAIN sent : HandledNow(j) /\ sent[j].call = k
          /\ TimerFires(k)
                => \A k2 \in DOMAIN calls \ {k} :
                      /\ RecordOf(k2) # {} => \E b \in RecordOf(k2) : MapHas(commandBatches', b)
                      /\ \A r \in MappedTo(k2) : MapHas(requestIdToBatchId', r)]_vars

-----------------------------------------------------------------------------
(* Rejections of the promises the server creates for itself (Spec) *)

\* the call sites inside the server that call runCommand or runCommands
InternalCallSites == {"sendMessage", "sendData", "dataPollingLoop",
                      "handleDataPollingResponse"}

\* the call site attaches a rejection handler to the promise it gets: the
\* try/catch around the await in sendData and in #dataPollingLoop, the
\* .catch on the removal command; sendMessage drops the promise
HasRejectionHandler(api) ==
    api \in {"sendData", "dataPollingLoop", "handleDataPollingResponse"}

\* C36: every promise an internal call site obtained from runCommand or
\* runCommands and that has been rejected has a rejection handler
C36RejectionsHandled ==
    \A k \in DOMAIN calls :
        (calls[k].api \in InternalCallSites /\ calls[k].rejected > 0)
           => HasRejectionHandler(calls[k].api)

-----------------------------------------------------------------------------
(* Retention of transfer records (SpecChannels) *)

\* C40: no tracked transfer record is older than TIMEOUT_TICKS, counted from
\* its most recent START, whatever DATA has arrived for it since
C40BoundedRetention ==
    \A transferId \in DOMAIN incomingTransfers :
        currentTick - incomingTransfers[transferId].startTime <= TIMEOUT_TICKS

\* "a", announced anew TIMEOUT_TICKS after the game began and sent a chunk, is
\* TIMEOUT_TICKS old at its last tick
C40Witness ==
    /\ MapHas(incomingTransfers, TransferA)
    /\ incomingTransfers[TransferA].startTime = TIMEOUT_TICKS
    /\ DOMAIN incomingTransfers[TransferA].receivedChunks # {}
    /\ currentTick - incomingTransfers[TransferA].startTime = TIMEOUT_TICKS

-----------------------------------------------------------------------------
(* Delivery over the polling channel (SpecDeliver) *)

\* the entry sendData("：1 (y)", 8) of the add-on makes the game track under
\* the objective "q": its display name is the JSON text of the string
KeyQ == [name |-> <<113>>,
         value |-> <<Quote, FullWidthColon, 49, Space, OpenParen, 121, CloseParen, Quote>>,
         score |-> 8]
DeliveryKeys == {KeyK, KeyQ}

\* the server is constructed with enableDataPolling and onData(callback) is
\* called before it starts
InitDeliver ==
    /\ wsServer = FALSE
    /\ clientConn = NoConn
    /\ connClosed = {}
    /\ connCount = 0
    /\ commandBatches = EmptyMap
    /\ requestIdToBatchId = EmptyMap
    /\ calls = <<>>
    /\ sent = <<>>
    /\ answered = {}
    /\ redelivered = {}
    /\ input = NoInput
    /\ transfers = <<>>
    /\ executed = {}
    /\ incomingTransfers = EmptyMap
    /\ listeners = EmptyMap
    /\ bridgeTimers = EmptyMap
    /\ timerCount = 0
    /\ dispatched = <<>>
    /\ currentTick = 0
    /\ diagnostic = NoDiagnostic
    /\ enableDataPolling = TRUE
    /\ dataCallback \in DataCallbacks
    /\ dataPollingTemp = {}
    /\ pollTimers = {}
    /\ loops = <<>>
    /\ delivered = <<>>
    /\ scoreboard = {}
    /\ now = 0

\* a poll response is still to come within the instants observed: a query is
\* in flight, or a loop sleeps and will wake to send one
PollAhead ==
    \E l \in DOMAIN loops :
        \/ loops[l].pc = "awaiting"
        \/ /\ loops[l].pc = "sleeping"
           /\ loops[l].due <= MaxOf(PollInstants)
           /\ Polls < MaxPolls

\* the add-on writes entry, one entry at a time, while a client is connected,
\* the key is not suppressed and a poll response is still to come
TrackInTime(entry) ==
    /\ ConnUsable(clientConn)
    /\ scoreboard = {}
    /\ ~IsSuppressed(dataPollingTemp, entry.name)
    /\ PollAhead
    /\ Track(entry)

\* one client connects and stays, the game answers every request, timers fire
\* and time passes
NextDeliver ==
    \/ Start
    \/ connCount < MaxConns /\ OnOpen
    \/ \E i \in DOMAIN sent : Respond(i)
    \/ \E l \in DOMAIN loops : Wake(l)
    \/ \E timer \in pollTimers : Unsuppress(timer)
    \/ \E t \in PollInstants : Tick(t)
    \/ \E entry \in DeliveryKeys : TrackInTime(entry)

\* a request is unanswered on an open connection: Respond is enabled
ResponseDue == \E i \in DOMAIN sent : i \notin answered /\ sent[i].conn \notin connClosed

\* the sleep of a loop is over: Wake is enabled
WakeDue ==
    \E l \in DOMAIN loops :
        /\ loops[l].pc = "sleeping"
        /\ loops[l].due <= now
        /\ ConnUsable(clientConn) => Polls < MaxPolls

\* the game answers what it is sent, a loop whose sleep is over goes on (weak
\* fairness of Respond and of Wake, written with their enabling conditions),
\* timers fire and time passes
SpecDeliver ==
    /\ InitDeliver
    /\ [][NextDeliver]_vars
    /\ ([]<>~ResponseDue \/ []<><<\E i \in DOMAIN sent : Respond(i)>>_vars)
    /\ ([]<>~WakeDue \/ []<><<\E l \in DOMAIN loops : Wake(l)>>_vars)
    /\ WF_vars(\E timer \in pollTimers : Unsuppress(timer))
    /\ WF_vars(\E t \in PollInstants : Tick(t))

\* the query a loop awaits is resolved in this step with the listing of what
\* the game tracks
PollAnswered ==
    \E l \in DOMAIN loops :
        /\ loops[l].pc = "awaiting"
        /\ calls'[loops[l].call].resolved > calls[loops[l].call].resolved
        /\ calls'[loops[l].call].results[1] = Listing(scoreboard)

\* the i-th invocation of the data callback after this step passed entry
Passed(entry, i) ==
    /\ delivered'[i].value = entry.value
    /\ delivered'[i].score = entry.score
    /\ delivered'[i].name = entry.name

\* entry is tracked and no removal command for its key is on its way
Undelivered(entry) ==
    /\ entry \in scoreboard
    /\ \A i \in DOMAIN sent :
          sent[i].commandLine = RemoveCommand(entry.name) => i \in answered

\* C35: with a callback registered and the connection open, a poll response
\* that lists an entry whose key is not suppressed passes the entry to the
\* callback and a removal command for its key is transmitted; and, the
\* identifiers drawn being distinct, every entry written is eventually handled
\* so
C35PollingDelivers ==
    /\ [][\A entry \in scoreboard :
             (PollAnswered /\ dataCallback # NoCallback
                           /\ ~IsSuppressed(dataPollingTemp, entry.name))
                => /\ \E i \in (Len(delivered) + 1)..Len(delivered') : Passed(entry, i)
                   /\ \E i \in DOMAIN sent' \ DOMAIN sent :
                         sent'[i].commandLine = RemoveCommand(entry.name)]_vars
    /\ \A entry \in DeliveryKeys :
          (Undelivered(entry) /\ IdsUnique) ~> (~Undelivered(entry) \/ ~IdsUnique)

====
